---- MODULE Spec2Model ----
(***************************************************************************)
(* Model of the duplicate-resolution workflow of the assistant: the        *)
(* Conversation Router (ConversationalAIService), the Sales and Finance    *)
(* domain services, the Entity Matcher, the Duplicate Classifier boundary  *)
(* and the Pending-Confirmation store (ConfirmationService over Redis).    *)
(*                                                                         *)
(* Strings are TLA+ strings; TLC evaluates Len, SubSeq and \o on them, so  *)
(* trimming, lower-casing, regular-expression tests and substring search   *)
(* are computed character by character as the JavaScript does.             *)
(***************************************************************************)
EXTENDS Integers, Sequences, FiniteSets, TLC

\* ------------------------------------------------------------------------
\* Characters and JavaScript string primitives
\* ------------------------------------------------------------------------
None == "<none>"

LowerLetters == "abcdefghijklmnopqrstuvwxyz"
UpperLetters == "ABCDEFGHIJKLMNOPQRSTUVWXYZ"
DigitChars == "0123456789"

Ch(s, i) == SubSeq(s, i, i)

CharsOf(s) == {Ch(s, i) : i \in 1..Len(s)}

LowerSet == CharsOf(LowerLetters)
UpperSet == CharsOf(UpperLetters)
DigitSet == CharsOf(DigitChars)

\* String.prototype.toLowerCase on one character
LowerMap ==
  [c \in UpperSet |-> Ch(LowerLetters, CHOOSE i \in 1..26 : Ch(UpperLetters, i) = c)]

\* value of a decimal digit
DigitValue == [c \in DigitSet |-> (CHOOSE i \in 1..10 : Ch(DigitChars, i) = c) - 1]

IsDigit(c) == c \in DigitSet
IsSpace(c) == c \in {" ", "\n", "\t"}
\* \w of a JavaScript regular expression
IsWordChar(c) == c \in LowerSet \/ c \in UpperSet \/ c \in DigitSet \/ c = "_"

LowerChar(c) == IF c \in UpperSet THEN LowerMap[c] ELSE c

RECURSIVE ToLowerCase(_)
ToLowerCase(s) ==
  IF Len(s) = 0 THEN "" ELSE LowerChar(Ch(s, 1)) \o ToLowerCase(SubSeq(s, 2, Len(s)))

RECURSIVE TrimStart(_)
TrimStart(s) ==
  IF Len(s) > 0 /\ IsSpace(Ch(s, 1)) THEN TrimStart(SubSeq(s, 2, Len(s))) ELSE s

RECURSIVE TrimEnd(_)
TrimEnd(s) ==
  IF Len(s) > 0 /\ IsSpace(Ch(s, Len(s))) THEN TrimEnd(SubSeq(s, 1, Len(s) - 1)) ELSE s

Trim(s) == TrimEnd(TrimStart(s))

\* String.prototype.includes
Includes(s, sub) ==
  \E i \in 1..(Len(s) - Len(sub) + 1) : SubSeq(s, i, i + Len(sub) - 1) = sub

StartsWith(s, p) == Len(s) >= Len(p) /\ SubSeq(s, 1, Len(p)) = p

AllDigits(s) == \A i \in 1..Len(s) : IsDigit(Ch(s, i))
AllSpaces(s) == \A i \in 1..Len(s) : IsSpace(Ch(s, i))

\* s matches /^\s*\d*$/ : some split into a run of spaces and a run of digits
SpacesThenDigits(s) ==
  \E k \in 0..Len(s) : AllSpaces(SubSeq(s, 1, k)) /\ AllDigits(SubSeq(s, k + 1, Len(s)))

\* s matches /^\s+\d+$/
Spaces1ThenDigits1(s) ==
  \E k \in 1..(Len(s) - 1) : AllSpaces(SubSeq(s, 1, k)) /\ AllDigits(SubSeq(s, k + 1, Len(s)))

\* the first match of /\d+/ in s, None when there is none
FirstDigitRun(s) ==
  IF \E i \in 1..Len(s) : IsDigit(Ch(s, i))
    THEN LET b == CHOOSE i \in 1..Len(s) :
                    IsDigit(Ch(s, i)) /\ \A j \in 1..(i - 1) : ~IsDigit(Ch(s, j))
             e == CHOOSE i \in b..Len(s) :
                    /\ \A j \in b..i : IsDigit(Ch(s, j))
                    /\ (i = Len(s) \/ ~IsDigit(Ch(s, i + 1)))
         IN SubSeq(s, b, e)
    ELSE None

RECURSIVE ParseInt(_)
ParseInt(d) ==
  IF Len(d) = 0 THEN 0
  ELSE 10 * ParseInt(SubSeq(d, 1, Len(d) - 1)) + DigitValue[Ch(d, Len(d))]

\* ------------------------------------------------------------------------
\* The confirmation grammar, as each of the three places tests it
\* ------------------------------------------------------------------------
ShowWords == {"show", "details", "info"}

\* /^(show|details|info)\s*\d*$/i  (the sales form \s*(\d+)? accepts the same strings)
MatchesShow(t) ==
  \E w \in ShowWords :
    /\ StartsWith(ToLowerCase(t), w)
    /\ SpacesThenDigits(SubSeq(t, Len(w) + 1, Len(t)))

\* /^update\s+\d+$/i
MatchesUpdateN(t) ==
  /\ StartsWith(ToLowerCase(t), "update")
  /\ Spaces1ThenDigits1(SubSeq(t, 7, Len(t)))

\* SalesService.isConfirmationMessage: four patterns, no length test
SalesIsConfirmationMessage(message) ==
  LET t == Trim(message) IN
  \/ ToLowerCase(t) \in {"yes", "y", "confirm", "create new", "new lead"}
  \/ ToLowerCase(t) \in {"no", "n", "cancel", "abort"}
  \/ ToLowerCase(t) \in {"update", "use existing"}
  \/ (Len(t) > 0 /\ AllDigits(t))
  \/ MatchesShow(t)

FinanceMaxLen == 20

\* FinanceService.isConfirmationMessage: five patterns and length < 20
FinanceIsConfirmationMessage(message) ==
  LET t == Trim(message) IN
  /\ \/ ToLowerCase(t) \in {"yes", "y", "confirm", "add new", "new transaction"}
     \/ ToLowerCase(t) \in {"no", "n", "cancel", "abort"}
     \/ ToLowerCase(t) \in {"update", "use existing"}
     \/ MatchesUpdateN(t)
     \/ MatchesShow(t)
  /\ Len(t) < FinanceMaxLen

RouterMaxLen == 25

\* ConversationalAIService.looksLikeConfirmation: five patterns and length < 25
looksLikeConfirmation(message) ==
  LET t == Trim(message) IN
  /\ \/ ToLowerCase(t) \in {"yes", "y", "confirm", "create new", "new lead", "new transaction"}
     \/ ToLowerCase(t) \in {"no", "n", "cancel", "abort"}
     \/ ToLowerCase(t) \in {"update", "use existing"}
     \/ MatchesUpdateN(t)
     \/ MatchesShow(t)
  /\ Len(t) < RouterMaxLen

\* const match = cleanMessage.match(/\d+/); match ? parseInt(match[0]) - 1 : 0
TargetIndexOf(cleanMessage) ==
  IF FirstDigitRun(cleanMessage) = None THEN 0 ELSE ParseInt(FirstDigitRun(cleanMessage)) - 1

\* ------------------------------------------------------------------------
\* SalesService.cleanLeadName
\* ------------------------------------------------------------------------
\* .replace(/\s+/g, ' ')
RECURSIVE CollapseSpaces(_)
CollapseSpaces(s) ==
  IF Len(s) = 0 THEN ""
  ELSE IF IsSpace(Ch(s, 1))
    THEN " " \o CollapseSpaces(TrimStart(s))
    ELSE Ch(s, 1) \o CollapseSpaces(SubSeq(s, 2, Len(s)))

\* .replace(/[^\w\s]/g, '')
RECURSIVE StripPunctuation(_)
StripPunctuation(s) ==
  IF Len(s) = 0 THEN ""
  ELSE (IF IsWordChar(Ch(s, 1)) \/ IsSpace(Ch(s, 1)) THEN Ch(s, 1) ELSE "")
         \o StripPunctuation(SubSeq(s, 2, Len(s)))

cleanLeadName(name) == ToLowerCase(StripPunctuation(CollapseSpaces(Trim(name))))

\* ------------------------------------------------------------------------
\* Bounds and input sets
\* ------------------------------------------------------------------------
MaxLeadId == 2
MaxTxId == 2
MaxNotesLen == 8

Users == {"u1"}
Domains == {"sales", "finance"}

\* falsy in the JavaScript tests `x && ...`, `x || default`, `if (x)`
Truthy(x) == x # None /\ x # ""

\* the reading of new Date().toLocaleString('en-ZA', ...) put into a note block
Timestamp == "t"

\* ------------------------------------------------------------------------
\* State
\* ------------------------------------------------------------------------
VARIABLES
  leads,         \* Lead rows of the durable store
  leadSeq,       \* number of Lead rows ever created (ids are never reused)
  transactions,  \* Transaction rows of the durable store
  txSeq,         \* number of Transaction rows ever created
  accounts,      \* Account rows of the durable store (unique per user and name)
  pending,       \* Redis: confirmation:<userId>:<domain> -> stored value or None
  last,          \* what the last step did (observation only)
  scenario       \* which tools the AI provider calls in the explored conversation

\* the confirmation keys of Redis in time
VARIABLES
  now,           \* the clock of the Redis server, in seconds
  expiresAt,     \* per confirmation key, the time its SETEX gave it
  written        \* per confirmation key, the last value stored and when (observation only)

storeVars == <<now, expiresAt, written>>

\* one call of BaseAIService.processAIRequest
VARIABLES
  request        \* the loop's position, its attempt counter and what it has seen

retryVars == <<request>>

\* one call of a processMessage entry point while its dependencies may fail
VARIABLES
  run            \* the entry point, the position in it, and what each call did so far

failVars == <<run>>

\* one run of NotificationSchedulerService.checkAndSendNotifications
VARIABLES
  batch,         \* the users still to serve, the position in the current send, what happened
  notifications  \* the Notification rows written during the run

schedVars == <<batch, notifications>>

\* one call of SalesService.findExistingLead
VARIABLES
  probe          \* the arguments of the call and the row it returned

matchVars == <<probe>>

\* the conversation key of one user in Redis
VARIABLES
  history,       \* the stored ConversationHistory, its expiry, and what was added to it
  clock          \* the clock of the Redis server holding it, in seconds

histVars == <<history, clock>>

\* two webhook deliveries of one reply to a pending finance confirmation
VARIABLES
  deliveries,    \* per delivery, its position in handleConfirmation and what it read
  ledger         \* the finance confirmation key, the message, and the rows created

dupVars == <<deliveries, ledger>>

\* one message on the general path of ConversationalAIService.processMessage
VARIABLES
  exchange       \* what processing produced, the position in processMessage, what was returned

replyVars == <<exchange>>

\* the RedisManager singleton and the getClient calls running against it
VARIABLES
  manager,       \* the fields client and isConnecting
  callers        \* per call, its position in getClient and what it returned

clientVars == <<manager, callers>>

\* two runs of the system that differ only in the records of user B
VARIABLES
  worlds         \* per run, the usernames, the finance confirmation keys, what A's message did

worldVars == <<worlds>>

\* two addMessage calls for one user running at once
VARIABLES
  adders,        \* per call, its position in addMessage and the history it read
  thread         \* the conversation key: the stored history, and what it held before

raceVars == <<adders, thread>>

\* the notification preferences of one User row
VARIABLES
  profile        \* the four notification columns and the setup action executed last

prefVars == <<profile>>

\* what the scheduler leaves alone besides the stores
otherVars ==
  <<matchVars, histVars, dupVars, replyVars, clientVars, worldVars, raceVars, prefVars>>

\* what a conversation leaves alone
auxVars == <<storeVars, retryVars, failVars, schedVars, otherVars>>

vars == <<leads, leadSeq, transactions, txSeq, accounts, pending, last, scenario, auxVars>>

Scenarios == {"sales", "notes", "finance", "both"}

\* the row bounds apply in the conversation about the one domain; the other
\* conversations keep to one row
LeadCap == IF scenario = "sales" THEN MaxLeadId ELSE 1

TxCap == IF scenario = "finance" THEN MaxTxId ELSE 1

\* no duplicate check was made
NoVerdict == [result |-> "none", confidence |-> 0, matchedLead |-> None, matchedTransaction |-> None]

\* the step dispatched no create, update or add
NoProposal == [kind |-> "none"]

NoLast ==
  [user |-> None, text |-> None, route |-> None, svc |-> None, path |-> None,
   act |-> None, reply |-> None, hadPending |-> FALSE, matcher |-> "na",
   classifier |-> "na", dup |-> NoVerdict, target |-> 0, proposed |-> NoProposal]

\* the observation record of one processed message
Obs(u, text, route, svc, path, act, reply, matcher, classifier, dup, target) ==
  [user |-> u, text |-> text, route |-> route, svc |-> svc, path |-> path,
   act |-> act, reply |-> reply,
   hadPending |-> (svc \in Domains /\ pending[u][svc].type # "none"),
   matcher |-> matcher, classifier |-> classifier, dup |-> dup, target |-> target,
   proposed |-> NoProposal]

\* the observation of a step that dispatched a create, update or add of `proposed`
ObsOf(proposed, obs) == [obs EXCEPT !.proposed = proposed]

\* the lead a create or update proposes
ProposedLead(name, updates) ==
  [name |-> name, phone |-> updates.phone, status |-> updates.status, notes |-> updates.notes]

\* ------------------------------------------------------------------------
\* ConfirmationService (Redis SETEX / GET / DEL / EXISTS on one key)
\* ------------------------------------------------------------------------
\* the key is absent
NoPending == [type |-> "none"]

\* a store that keeps the value a key already holds
storePendingConfirmationIfAbsent(p, u, d, confirmation) ==
  IF p[u][d] = NoPending THEN [p EXCEPT ![u][d] = confirmation] ELSE p

storePendingConfirmation(p, u, d, confirmation) == [p EXCEPT ![u][d] = confirmation]

\* a stored string that JSON.parse rejects
CorruptData == [type |-> "corrupt"]

\* the value getPendingConfirmation returns: null for no data and for data that
\* does not parse (the caller of redis.get also deletes such a key, see Get)
getPendingConfirmation(p, u, d) == IF p[u][d] = CorruptData THEN NoPending ELSE p[u][d]

\* a clear that leaves the key in place
clearPendingConfirmationKeep(p, u, d) == p

clearPendingConfirmation(p, u, d) == [p EXCEPT ![u][d] = NoPending]

hasPendingConfirmation(p, u, d) == p[u][d] # NoPending

\* ------------------------------------------------------------------------
\* Sales: Entity Matcher, note merge, lead rows
\* ------------------------------------------------------------------------
LeadsOf(u) == {l \in leads : l.userId = u}

LeadById(u, id) == {l \in leads : l.userId = u /\ l.id = id}

\* a matcher that tries the substring strategy before the phone strategy
findExistingLeadSubstringFirst(u, name, phone) ==
  LET cleanName == cleanLeadName(name)
      byName == {l \in leads : l.userId = u /\ ToLowerCase(l.name) = ToLowerCase(cleanName)}
      byPhone == IF Truthy(phone) THEN {l \in leads : l.userId = u /\ l.phone = phone} ELSE {}
      bySubstring == {l \in leads : l.userId = u /\ Includes(ToLowerCase(l.name), ToLowerCase(cleanName))}
  IN IF byName # {} THEN byName ELSE IF bySubstring # {} THEN bySubstring ELSE byPhone

\* findExistingLead: the rows prisma.lead.findFirst may return for the first
\* strategy that matches any row (findFirst has no orderBy); {} stands for null
findExistingLead(u, name, phone) ==
  LET cleanName == cleanLeadName(name)
      byName == {l \in LeadsOf(u) : ToLowerCase(l.name) = ToLowerCase(cleanName)}
      byPhone == IF Truthy(phone) THEN {l \in LeadsOf(u) : l.phone = phone} ELSE {}
      bySubstring == {l \in LeadsOf(u) : Includes(ToLowerCase(l.name), ToLowerCase(cleanName))}
  IN IF byName # {} THEN byName ELSE IF byPhone # {} THEN byPhone ELSE bySubstring

\* the sequences findMany(... take 3) may return for a set of matching rows
Take3Orders(S) ==
  LET n == IF Cardinality(S) < 3 THEN Cardinality(S) ELSE 3
  IN {q \in [1..n -> S] : \A i, j \in 1..n : i # j => q[i] # q[j]}

\* findSimilarLeadsByName: name contains (insensitive), take 3; ids of the rows
findSimilarLeadsByName(u, label) ==
  Take3Orders({l.id : l \in {m \in LeadsOf(u) : Includes(ToLowerCase(m.name), ToLowerCase(label))}})

\* createLead, exact-match branch: notes are concatenated
AppendNotesAlways(existingNotes, newNotes) ==
  IF Truthy(newNotes)
    THEN (IF Truthy(existingNotes) THEN existingNotes \o "\n\n" \o newNotes ELSE newNotes)
    ELSE existingNotes

\* SMART NOTE APPENDING (updateLead and executePendingAction)
SmartAppendNotes(existingNotes, newNotes) ==
  IF Truthy(newNotes)
    THEN IF Truthy(existingNotes)
           THEN IF ~Includes(ToLowerCase(existingNotes), ToLowerCase(newNotes))
                  THEN existingNotes \o "\n\n[" \o Timestamp \o "] " \o newNotes
                  ELSE existingNotes
           ELSE newNotes
    ELSE existingNotes

\* a merge that writes the notes and forgets the contact fields
MergeLeadNotesOnly(l, upd, notes) == [l EXCEPT !.notes = notes]

\* the data object of prisma.lead.update: a field is written only when given
MergeLead(l, upd, notes) ==
  [l EXCEPT !.phone = IF Truthy(upd.phone) THEN upd.phone ELSE @,
            !.status = IF Truthy(upd.status) THEN upd.status ELSE @,
            !.notes = notes]

NotesFit(n) == n = None \/ Len(n) <= MaxNotesLen

\* ------------------------------------------------------------------------
\* Inputs: what the AI provider may answer
\* ------------------------------------------------------------------------
Names == {"Acme Corp", "ACME!"}
NoteInputs == {"a", "b"}
LeadLabels == {"acme", "Dandrom"}

NoUpdates == [phone |-> None, status |-> None, notes |-> None]

\* updates that set the contact fields, and updates that carry a note
UpdateInputs == {NoUpdates, [phone |-> "0821", status |-> "Contacted", notes |-> None]}

NoteUpdateInputs == [phone : {None}, status : {None}, notes : NoteInputs]

\* a LeadUpdate that passed LeadUpdateSchema; the read-only actions are one class
SalesIntents ==
  [action : {"create", "update"}, contactName : Names, updates : UpdateInputs]
    \cup [action : {"view", "delete"}, contactName : Names, updates : {NoUpdates}]
    \cup [action : {"query"}, contactName : {None}, updates : {NoUpdates}]

\* the intents explored in the conversation about notes
SalesNoteIntents ==
  [action : {"create", "update"}, contactName : Names, updates : NoteUpdateInputs]

\* the answers explored when both tools are in play, or for a confirmation-like text
SalesIntentsBrief ==
  [action : {"create"}, contactName : Names, updates : {NoUpdates}]
    \cup [action : {"query"}, contactName : {None}, updates : {NoUpdates}]

\* generateResponse threw, JSON.parse threw or the schema rejected the answer
AIFailure == "ai_failure"

\* a DuplicateDetection that passed DuplicateDetectionSchema
UniqueVerdict(confidence) ==
  [result |-> "UNIQUE", confidence |-> confidence, matchedLead |-> None, matchedTransaction |-> None]

AIConfidence == 85

SalesClassifierAnswers ==
  {UniqueVerdict(AIConfidence)}
    \cup [result : {"DUPLICATE"}, confidence : {AIConfidence},
          matchedLead : LeadLabels \cup {None}, matchedTransaction : {None}]

\* ------------------------------------------------------------------------
\* SalesService
\* ------------------------------------------------------------------------
SalesFrame == UNCHANGED <<transactions, txSeq, accounts, scenario, auxVars>>

\* a reply that changes nothing
SalesReply(u, text, route, path, act, reply, target) ==
  /\ last' = Obs(u, text, route, "sales", path, act, reply, "na", "na", NoVerdict, target)
  /\ UNCHANGED <<leads, leadSeq, pending>>
  /\ SalesFrame

\* a fallback that flags the lead as a duplicate
SalesFallbackVerdictWrong == [UniqueVerdict(50) EXCEPT !.result = "DUPLICATE", !.matchedLead = "acme"]

\* checkForDuplicate's fallback value in its catch block
SalesFallbackVerdict == UniqueVerdict(50)

\* createLead, after the Entity Matcher missed and checkForDuplicate returned dup
SalesCreateChecked(u, text, route, act, name, updates, classifier, dup) ==
  IF dup.result = "DUPLICATE" /\ Truthy(dup.matchedLead)
    THEN \E similarLeads \in findSimilarLeadsByName(u, dup.matchedLead) :
           /\ pending' = storePendingConfirmation(pending, u, "sales",
                           [type |-> "duplicate_detected",
                            proposed |-> ProposedLead(name, updates),
                            duplicateCheck |-> dup,
                            similar |-> similarLeads])
           /\ last' = ObsOf(ProposedLead(name, updates),
                             Obs(u, text, route, "sales", "intent", act, "duplicate_confirmation",
                                 "miss", classifier, dup, 0))
           /\ UNCHANGED <<leads, leadSeq>>
           /\ SalesFrame
    ELSE /\ leadSeq < LeadCap
         /\ NotesFit(updates.notes)
         /\ leadSeq' = leadSeq + 1
         /\ leads' = leads \cup
              {[id |-> leadSeq + 1, userId |-> u, name |-> cleanLeadName(name),
                phone |-> IF Truthy(updates.phone) THEN updates.phone ELSE None,
                status |-> IF Truthy(updates.status) THEN updates.status ELSE "New",
                notes |-> IF Truthy(updates.notes) THEN updates.notes ELSE None]}
         /\ last' = ObsOf(ProposedLead(name, updates),
                           Obs(u, text, route, "sales", "intent", act, "created",
                               "miss", classifier, dup, leadSeq + 1))
         /\ UNCHANGED pending
         /\ SalesFrame

\* checkForDuplicate followed by the rest of createLead
SalesCheckForDuplicate(u, text, route, act, name, updates) ==
  IF LeadsOf(u) = {}
    THEN SalesCreateChecked(u, text, route, act, name, updates, "na", UniqueVerdict(100))
    ELSE \/ SalesCreateChecked(u, text, route, act, name, updates, "failed", SalesFallbackVerdict)
         \/ \E answer \in SalesClassifierAnswers :
              SalesCreateChecked(u, text, route, act, name, updates, "ok", answer)

\* a create that asks the Duplicate Classifier before the Entity Matcher
createLeadClassifierFirst(u, text, route, act, name, updates) ==
  SalesCheckForDuplicate(u, text, route, act, name, updates)

\* createLead
createLead(u, text, route, act, name, updates) ==
  LET found == findExistingLead(u, name, updates.phone) IN
  IF found # {}
    THEN \E exactMatch \in found :
           LET notes == AppendNotesAlways(exactMatch.notes, updates.notes) IN
           /\ NotesFit(notes)
           /\ leads' = (leads \ {exactMatch}) \cup {MergeLead(exactMatch, updates, notes)}
           /\ last' = ObsOf(ProposedLead(name, updates),
                             Obs(u, text, route, "sales", "intent", act, "updated_existing",
                                 "hit", "na", NoVerdict, exactMatch.id))
           /\ UNCHANGED <<leadSeq, pending>>
           /\ SalesFrame
    ELSE SalesCheckForDuplicate(u, text, route, act, name, updates)

\* updateLead
updateLead(u, text, route, name, updates) ==
  LET found == findExistingLead(u, name, updates.phone) IN
  IF found = {}
    THEN createLead(u, text, route, "update", name, updates)
    ELSE \E lead \in found :
           LET notes == SmartAppendNotes(lead.notes, updates.notes) IN
           /\ NotesFit(notes)
           /\ leads' = (leads \ {lead}) \cup {MergeLead(lead, updates, notes)}
           /\ last' = ObsOf(ProposedLead(name, updates),
                             Obs(u, text, route, "sales", "intent", "update", "updated",
                                 "hit", "na", NoVerdict, lead.id))
           /\ UNCHANGED <<leadSeq, pending>>
           /\ SalesFrame

\* viewLead: throws when the lead is not found
viewLead(u, text, route, name) ==
  LET found == findExistingLead(u, name, None) IN
  IF found = {}
    THEN SalesReply(u, text, route, "intent", "view", "friendly_error", 0)
    ELSE \E lead \in found :
           SalesReply(u, text, route, "intent", "view", "view", lead.id)

\* deleteLead: throws when the lead is not found
deleteLead(u, text, route, name) ==
  LET found == findExistingLead(u, name, None) IN
  IF found = {}
    THEN SalesReply(u, text, route, "intent", "delete", "friendly_error", 0)
    ELSE \E lead \in found :
           /\ leads' = leads \ {lead}
           /\ last' = Obs(u, text, route, "sales", "intent", "delete", "deleted",
                          "hit", "na", NoVerdict, lead.id)
           /\ UNCHANGED <<leadSeq, pending>>
           /\ SalesFrame

\* processLeadUpdate
processLeadUpdate(u, text, route, intent) ==
  CASE intent.action = "create" ->
         createLead(u, text, route, "create", intent.contactName, intent.updates)
    [] intent.action = "update" ->
         updateLead(u, text, route, intent.contactName, intent.updates)
    [] intent.action = "view" -> viewLead(u, text, route, intent.contactName)
    [] intent.action = "delete" -> deleteLead(u, text, route, intent.contactName)
    [] OTHER -> SalesReply(u, text, route, "intent", intent.action, "answered", 0)

\* processMessageWithContext: the AI parses the text into an intent, or fails
SalesProcessIntent(u, text, route, intents) ==
  \/ SalesReply(u, text, route, "intent", AIFailure, "friendly_error", 0)
  \/ \E intent \in intents : processLeadUpdate(u, text, route, intent)

\* executePendingAction(userId, 'create_new', ...): the branch body is empty,
\* control falls to the final `return "Unknown action"`
SalesCreateNew(u, text, route, pc) ==
  SalesReply(u, text, route, "confirmation", "create_new", "unknown_action", 0)

\* executePendingAction(userId, 'update_existing', ..., targetIndex)
SalesUpdateExisting(u, text, route, pc, targetIndex) ==
  IF Len(pc.similar) = 0
    THEN SalesReply(u, text, route, "confirmation", "update_existing", "no_similar", 0)
  ELSE IF (targetIndex + 1) \notin 1..Len(pc.similar)
    THEN SalesReply(u, text, route, "confirmation", "update_existing", "target_not_found", 0)
  ELSE IF LeadById(u, pc.similar[targetIndex + 1]) = {}
    THEN SalesReply(u, text, route, "confirmation", "update_existing", "no_longer_exists", 0)
  ELSE LET existingLead == CHOOSE l \in LeadById(u, pc.similar[targetIndex + 1]) : TRUE
           updatedNotes == SmartAppendNotes(existingLead.notes, pc.proposed.notes)
       IN /\ NotesFit(updatedNotes)
          /\ leads' = (leads \ {existingLead}) \cup {MergeLead(existingLead, pc.proposed, updatedNotes)}
          /\ pending' = clearPendingConfirmation(pending, u, "sales")
          /\ last' = Obs(u, text, route, "sales", "confirmation", "update_existing",
                         "merged", "na", "na", NoVerdict, existingLead.id)
          /\ UNCHANGED leadSeq
          /\ SalesFrame

\* a detail view that resolves the confirmation
showLeadDetailsClears(u, text, route, pc, targetIndex) ==
  /\ pending' = clearPendingConfirmation(pending, u, "sales")
  /\ last' = Obs(u, text, route, "sales", "confirmation", "show_details", "details",
                 "na", "na", NoVerdict, 0)
  /\ UNCHANGED <<leads, leadSeq>>
  /\ SalesFrame

\* showLeadDetails
showLeadDetails(u, text, route, pc, targetIndex) ==
  IF Len(pc.similar) = 0
    THEN SalesReply(u, text, route, "confirmation", "show_details", "no_similar", 0)
  ELSE IF (targetIndex + 1) \notin 1..Len(pc.similar)
    THEN SalesReply(u, text, route, "confirmation", "show_details", "no_details", 0)
  ELSE IF LeadById(u, pc.similar[targetIndex + 1]) = {}
    THEN SalesReply(u, text, route, "confirmation", "show_details", "no_details", 0)
  ELSE SalesReply(u, text, route, "confirmation", "show_details", "details",
                  pc.similar[targetIndex + 1])

\* SalesService.handleConfirmation
SalesHandleConfirmation(u, text, route) ==
  LET pendingConfirmation == getPendingConfirmation(pending, u, "sales")
      cleanMessage == ToLowerCase(Trim(text))
  IN
  IF pendingConfirmation = NoPending
    THEN SalesReply(u, text, route, "confirmation", None, "no_pending_confirmations", 0)
  ELSE IF cleanMessage \in {"yes", "y", "confirm", "create new", "new lead"}
    THEN SalesCreateNew(u, text, route, pendingConfirmation)
  ELSE IF cleanMessage \in {"update", "use existing"} \/ (Len(cleanMessage) > 0 /\ AllDigits(cleanMessage))
    THEN SalesUpdateExisting(u, text, route, pendingConfirmation, TargetIndexOf(cleanMessage))
  ELSE IF \E w \in ShowWords : StartsWith(cleanMessage, w)
    THEN showLeadDetails(u, text, route, pendingConfirmation, TargetIndexOf(cleanMessage))
  ELSE /\ pending' = clearPendingConfirmation(pending, u, "sales")
       /\ last' = Obs(u, text, route, "sales", "confirmation", "cancel", "cancelled",
                      "na", "na", NoVerdict, 0)
       /\ UNCHANGED <<leads, leadSeq>>
       /\ SalesFrame

\* SalesService.processMessage
SalesProcessMessage(u, text, route, intents) ==
  IF SalesIsConfirmationMessage(text)
    THEN SalesHandleConfirmation(u, text, route)
    ELSE SalesProcessIntent(u, text, route, intents)

\* ------------------------------------------------------------------------
\* FinanceService
\* ------------------------------------------------------------------------
TxLabels == {"groceries", "Rent"}
AccountNames == {"car fund"}

TxInputs ==
  {[description |-> "Groceries", amount |-> 89], [description |-> "Woolworths", amount |-> 50]}

NoTx == [description |-> None, amount |-> 0]

FinanceIntents ==
  [action : {"add_transaction"}, tx : TxInputs, id : {0}, account : {None}]
    \cup [action : {"delete_transaction"}, tx : {NoTx}, id : 1..MaxTxId, account : {None}]
    \cup [action : {"update_account", "delete_account"}, tx : {NoTx}, id : {0}, account : AccountNames]
    \cup [action : {"summary"}, tx : {NoTx}, id : {0}, account : {None}]

FinanceIntentsBrief ==
  [action : {"add_transaction"}, tx : TxInputs, id : {0}, account : {None}]
    \cup [action : {"summary"}, tx : {NoTx}, id : {0}, account : {None}]

\* answers that pass DuplicateDetectionSchema (matchedLead is a required key)
FinanceClassifierAnswers ==
  {UniqueVerdict(AIConfidence)}
    \cup [result : {"DUPLICATE"}, confidence : {AIConfidence},
          matchedLead : {None}, matchedTransaction : TxLabels \cup {None}]

FinanceFrame == UNCHANGED <<leads, leadSeq, scenario, auxVars>>

TxsOf(u) == {t \in transactions : t.userId = u}

TxById(u, id) == {t \in transactions : t.userId = u /\ t.id = id}

FinanceReply(u, text, route, path, act, reply, target) ==
  /\ last' = Obs(u, text, route, "finance", path, act, reply, "na", "na", NoVerdict, target)
  /\ UNCHANGED <<transactions, txSeq, accounts, pending>>
  /\ FinanceFrame

RECURSIVE DescendingIds(_)
DescendingIds(S) ==
  IF S = {} THEN <<>>
  ELSE LET m == CHOOSE x \in S : \A y \in S : y <= x IN <<m>> \o DescendingIds(S \ {m})

\* findSimilarTransactions: description contains (insensitive), newest first, take 3;
\* the stored value holds the rows as they were read
findSimilarTransactions(u, label) ==
  LET hits == {t \in TxsOf(u) : Includes(ToLowerCase(t.description), ToLowerCase(label))}
      ids == DescendingIds({t.id : t \in hits})
      top == SubSeq(ids, 1, IF Len(ids) < 3 THEN Len(ids) ELSE 3)
  IN [i \in 1..Len(top) |-> CHOOSE t \in hits : t.id = top[i]]

\* checkForTransactionDuplicate's fallback value in its catch block
FinanceFallbackVerdict == UniqueVerdict(50)

\* addTransaction, after checkForTransactionDuplicate returned dup
FinanceAddChecked(u, text, route, tx, classifier, dup) ==
  IF dup.result = "DUPLICATE" /\ Truthy(dup.matchedTransaction)
    THEN /\ pending' = storePendingConfirmation(pending, u, "finance",
                         [type |-> "transaction_duplicate",
                          proposed |-> tx,
                          duplicateCheck |-> dup,
                          similar |-> findSimilarTransactions(u, dup.matchedTransaction)])
         /\ last' = ObsOf(tx, Obs(u, text, route, "finance", "intent", "add_transaction",
                               "duplicate_confirmation", "na", classifier, dup, 0))
         /\ UNCHANGED <<transactions, txSeq, accounts>>
         /\ FinanceFrame
    ELSE /\ txSeq < TxCap
         /\ txSeq' = txSeq + 1
         /\ transactions' = transactions \cup
              {[id |-> txSeq + 1, userId |-> u, description |-> tx.description, amount |-> tx.amount]}
         /\ last' = ObsOf(tx, Obs(u, text, route, "finance", "intent", "add_transaction",
                               "created", "na", classifier, dup, txSeq + 1))
         /\ UNCHANGED <<accounts, pending>>
         /\ FinanceFrame

\* addTransaction with checkForTransactionDuplicate
addTransaction(u, text, route, tx) ==
  IF TxsOf(u) = {}
    THEN FinanceAddChecked(u, text, route, tx, "na", UniqueVerdict(100))
    ELSE \/ FinanceAddChecked(u, text, route, tx, "failed", FinanceFallbackVerdict)
         \/ \E answer \in FinanceClassifierAnswers :
              FinanceAddChecked(u, text, route, tx, "ok", answer)

\* deleteTransaction: throws when the row is not found
deleteTransaction(u, text, route, id) ==
  IF TxById(u, id) = {}
    THEN FinanceReply(u, text, route, "intent", "delete_transaction", "friendly_error", 0)
    ELSE /\ transactions' = transactions \ TxById(u, id)
         /\ last' = Obs(u, text, route, "finance", "intent", "delete_transaction",
                        "deleted", "na", "na", NoVerdict, id)
         /\ UNCHANGED <<txSeq, accounts, pending>>
         /\ FinanceFrame

\* updateAccount: upsert on (userId, name)
updateAccount(u, text, route, name) ==
  /\ accounts' = accounts \cup {[userId |-> u, name |-> name]}
  /\ last' = Obs(u, text, route, "finance", "intent", "update_account",
                 "account_updated", "na", "na", NoVerdict, 0)
  /\ UNCHANGED <<transactions, txSeq, pending>>
  /\ FinanceFrame

\* deleteAccount: throws when the row is not found
deleteAccount(u, text, route, name) ==
  IF [userId |-> u, name |-> name] \notin accounts
    THEN FinanceReply(u, text, route, "intent", "delete_account", "friendly_error", 0)
    ELSE /\ accounts' = accounts \ {[userId |-> u, name |-> name]}
         /\ last' = Obs(u, text, route, "finance", "intent", "delete_account",
                        "deleted", "na", "na", NoVerdict, 0)
         /\ UNCHANGED <<transactions, txSeq, pending>>
         /\ FinanceFrame

\* processFinanceUpdate
processFinanceUpdate(u, text, route, intent) ==
  CASE intent.action = "add_transaction" -> addTransaction(u, text, route, intent.tx)
    [] intent.action = "delete_transaction" -> deleteTransaction(u, text, route, intent.id)
    [] intent.action = "update_account" -> updateAccount(u, text, route, intent.account)
    [] intent.action = "delete_account" -> deleteAccount(u, text, route, intent.account)
    [] OTHER -> FinanceReply(u, text, route, "intent", intent.action, "answered", 0)

\* FinanceService.processNormalMessage and the tail of processMessage
FinanceProcessIntent(u, text, route, intents) ==
  \/ FinanceReply(u, text, route, "intent", AIFailure, "friendly_error", 0)
  \/ \E intent \in intents : processFinanceUpdate(u, text, route, intent)

\* executePendingAction(userId, 'update_existing', ..., targetIndex); an update of a
\* row that is gone throws, and the catch block clears the pending confirmation
FinanceUpdateExisting(u, text, route, pc, targetIndex) ==
  IF Len(pc.similar) = 0
    THEN FinanceReply(u, text, route, "confirmation", "update_existing", "no_similar", 0)
  ELSE IF (targetIndex + 1) \notin 1..Len(pc.similar)
    THEN FinanceReply(u, text, route, "confirmation", "update_existing", "target_not_found", 0)
  ELSE LET targetTransaction == pc.similar[targetIndex + 1]
           rows == {t \in transactions : t.id = targetTransaction.id}
       IN IF rows = {}
            THEN /\ pending' = clearPendingConfirmation(pending, u, "finance")
                 /\ last' = Obs(u, text, route, "finance", "confirmation", "update_existing",
                                "something_went_wrong", "na", "na", NoVerdict, 0)
                 /\ UNCHANGED <<transactions, txSeq, accounts>>
                 /\ FinanceFrame
            ELSE /\ transactions' = (transactions \ rows) \cup
                      {[r EXCEPT !.description = IF Truthy(pc.proposed.description)
                                                   THEN pc.proposed.description
                                                   ELSE targetTransaction.description,
                                 !.amount = pc.proposed.amount] : r \in rows}
                 /\ pending' = clearPendingConfirmation(pending, u, "finance")
                 /\ last' = Obs(u, text, route, "finance", "confirmation", "update_existing",
                                "merged", "na", "na", NoVerdict, targetTransaction.id)
                 /\ UNCHANGED <<txSeq, accounts>>
                 /\ FinanceFrame

\* a 'yes' that merges into the first candidate instead of adding
FinanceAddNewMerges(u, text, route, pc) == FinanceUpdateExisting(u, text, route, pc, 0)

\* executePendingAction(userId, 'add_new', ...)
FinanceAddNew(u, text, route, pc) ==
  /\ txSeq < TxCap
  /\ txSeq' = txSeq + 1
  /\ transactions' = transactions \cup
       {[id |-> txSeq + 1, userId |-> u,
         description |-> pc.proposed.description, amount |-> pc.proposed.amount]}
  /\ pending' = clearPendingConfirmation(pending, u, "finance")
  /\ last' = Obs(u, text, route, "finance", "confirmation", "add_new", "added_new",
                 "na", "na", NoVerdict, txSeq + 1)
  /\ UNCHANGED accounts
  /\ FinanceFrame

\* showTransactionDetails: formats the stored row, reads nothing
showTransactionDetails(u, text, route, pc, targetIndex) ==
  IF Len(pc.similar) = 0
    THEN FinanceReply(u, text, route, "confirmation", "show_details", "no_similar", 0)
  ELSE IF (targetIndex + 1) \notin 1..Len(pc.similar)
    THEN FinanceReply(u, text, route, "confirmation", "show_details", "no_details", 0)
  ELSE FinanceReply(u, text, route, "confirmation", "show_details", "details",
                    pc.similar[targetIndex + 1].id)

\* FinanceService.handleConfirmation
FinanceHandleConfirmation(u, text, route, intents) ==
  LET pendingConfirmation == getPendingConfirmation(pending, u, "finance")
      cleanMessage == ToLowerCase(Trim(text))
  IN
  IF pendingConfirmation = NoPending
    THEN FinanceProcessIntent(u, text, route, intents)
  ELSE IF cleanMessage \in {"yes", "y", "confirm", "add new", "new transaction"}
    THEN FinanceAddNew(u, text, route, pendingConfirmation)
  ELSE IF cleanMessage \in {"update", "use existing"} \/ MatchesUpdateN(cleanMessage)
    THEN FinanceUpdateExisting(u, text, route, pendingConfirmation, TargetIndexOf(cleanMessage))
  ELSE IF \E w \in ShowWords : StartsWith(cleanMessage, w)
    THEN showTransactionDetails(u, text, route, pendingConfirmation, TargetIndexOf(cleanMessage))
  ELSE IF cleanMessage \in {"no", "n", "cancel", "abort"}
    THEN /\ pending' = clearPendingConfirmation(pending, u, "finance")
         /\ last' = Obs(u, text, route, "finance", "confirmation", "cancel", "cancelled",
                        "na", "na", NoVerdict, 0)
         /\ UNCHANGED <<transactions, txSeq, accounts>>
         /\ FinanceFrame
  ELSE FinanceProcessIntent(u, text, route, intents)

\* FinanceService.processMessage
FinanceProcessMessage(u, text, route, intents) ==
  IF FinanceIsConfirmationMessage(text)
    THEN FinanceHandleConfirmation(u, text, route, intents)
    ELSE FinanceProcessIntent(u, text, route, intents)

\* ------------------------------------------------------------------------
\* ConversationalAIService.processMessage (the Conversation Router)
\* ------------------------------------------------------------------------
FreeText == "hello"

\* a show reply, 30 characters long once trimmed: 'show', 25 spaces, '1'
LongShow == " show                         1 "

\* the inbound texts explored
Texts ==
  {"yes", " Y ", "new lead", "add new", "new transaction",
   "update", "Use Existing", "update 1", "update 2", "2",
   "show", "info 2", LongShow,
   "no", "n", "cancel", "abort",
   FreeText}

\* the texts explored on the general path (no confirmation claims the message)
GeneralTexts == {FreeText, "yes", "2", "add new", LongShow}

\* the intents explored for a message: every intent for a free text in a
\* one-tool conversation, the brief ones otherwise
SalesIntentsFor(text) ==
  IF scenario = "sales" /\ text = FreeText THEN SalesIntents
  ELSE IF scenario = "notes" /\ text = FreeText THEN SalesNoteIntents
  ELSE SalesIntentsBrief

FinanceIntentsFor(text) ==
  IF scenario = "finance" /\ text = FreeText THEN FinanceIntents ELSE FinanceIntentsBrief

\* pending sales confirmation and a text that looks like a confirmation
RouteSalesConfirmation(u, text) ==
  /\ hasPendingConfirmation(pending, u, "sales") /\ looksLikeConfirmation(text)
  /\ SalesProcessMessage(u, text, "sales_confirmation", SalesIntentsFor(text))

\* otherwise, pending finance confirmation and a text that looks like one
RouteFinanceConfirmation(u, text) ==
  /\ ~(hasPendingConfirmation(pending, u, "sales") /\ looksLikeConfirmation(text))
  /\ hasPendingConfirmation(pending, u, "finance") /\ looksLikeConfirmation(text)
  /\ FinanceProcessMessage(u, text, "finance_confirmation", FinanceIntentsFor(text))

GeneralRoute(u, text) ==
  /\ text \in GeneralTexts
  /\ ~(hasPendingConfirmation(pending, u, "sales") /\ looksLikeConfirmation(text))
  /\ ~(hasPendingConfirmation(pending, u, "finance") /\ looksLikeConfirmation(text))

\* general path, the AI answers without a tool call (or the call fails)
GeneralChat(u, text) ==
  /\ GeneralRoute(u, text)
  /\ last' = Obs(u, text, "general", None, None, None, "chat", "na", "na", NoVerdict, 0)
  /\ UNCHANGED <<leads, leadSeq, transactions, txSeq, accounts, pending, scenario, auxVars>>

\* general path, the AI answers with toolCalls [{tool: 'sales'}]
GeneralSalesTool(u, text) ==
  /\ scenario \in {"sales", "notes", "both"}
  /\ GeneralRoute(u, text)
  /\ SalesProcessMessage(u, text, "general", SalesIntentsFor(text))

\* general path, the AI answers with toolCalls [{tool: 'finance'}]
GeneralFinanceTool(u, text) ==
  /\ scenario \in {"finance", "both"}
  /\ GeneralRoute(u, text)
  /\ FinanceProcessMessage(u, text, "general", FinanceIntentsFor(text))

\* Redis drops a confirmation key whose 300 seconds have passed
Expire(u, d) ==
  /\ pending[u][d] # NoPending
  /\ pending' = [pending EXCEPT ![u][d] = NoPending]
  /\ last' = [NoLast EXCEPT !.act = "expire"]
  /\ UNCHANGED <<leads, leadSeq, transactions, txSeq, accounts, scenario, auxVars>>

\* the durable store and Redis are empty, nothing has been processed
EmptyStores ==
  /\ leads = {}
  /\ leadSeq = 0
  /\ transactions = {}
  /\ txSeq = 0
  /\ accounts = {}
  /\ pending = [u \in Users |-> [d \in Domains |-> NoPending]]

\* the clock stands at 0 and no key has been written
StoreIdle ==
  /\ now = 0
  /\ expiresAt = [u \in Users |-> [d \in Domains |-> 0]]
  /\ written = [u \in Users |-> [d \in Domains |->
                   [value |-> NoPending, at |-> 0, previous |-> NoPending, cleared |-> FALSE,
                    healed |-> FALSE]]]

\* ------------------------------------------------------------------------
\* BaseAIService.processAIRequest: what an attempt can throw
\* ------------------------------------------------------------------------
maxRetries == 2
retryDelay == 1000

NoError == [kind |-> "none", transient |-> FALSE, message |-> ""]
NoValue == [action |-> "none"]

\* aiProvider.generateResponse threw: the provider or the network failed
ProviderErrors ==
  [kind : {"provider"}, transient : {TRUE},
   message : {"503 Service Unavailable", "502 Bad Gateway", "429 Too Many Requests",
              "The model is overloaded", "Request timeout", "Network error",
              "connect ECONNREFUSED"}]
    \cup [kind : {"provider"}, transient : {FALSE},
          message : {"401 Unauthorized", "API key not valid"}]

\* JSON.parse threw a SyntaxError: its message quotes the text that did not parse
ParseErrors ==
  [kind : {"parse"}, transient : {FALSE},
   message : {"Unexpected end of JSON input",
              "Unexpected token 'S', \"Sure, here\" is not valid JSON",
              "Unexpected token 'S', \"Service overloaded\" is not valid JSON"}]

\* schema.parse threw a ZodError: its message quotes the value it received
SchemaErrors ==
  [kind : {"schema"}, transient : {FALSE},
   message : {"Invalid enum value, received 'add'",
              "Invalid enum value, received 'timeout'"}]

AttemptErrors == ProviderErrors \cup ParseErrors \cup SchemaErrors

\* the values schema.parse returns
ValidatedValues == {[action |-> "create"], [action |-> "query"]}

RetryableWords == {"503", "502", "429", "overloaded", "timeout", "network", "unavailable"}

\* BaseAIService.isRetryableError: a substring test on error.message, lower-cased
isRetryableError(error) ==
  \E w \in RetryableWords : Includes(ToLowerCase(error.message), w)

\* no request is being processed
RetryIdle ==
  request = [phase |-> "idle", attempt |-> 0, calls |-> 0, first |-> NoError,
             error |-> NoError, slept |-> 0, value |-> NoValue]

\* no entry point is running
RunIdle ==
  run = [entry |-> None, caller |-> None, pc |-> "idle", outcome |-> "idle", log |-> << >>]

\* the scheduler has not run
SchedIdle ==
  /\ batch = [pc |-> "idle", due |-> << >>, queue |-> << >>, attempted |-> << >>,
              failed |-> {}, delivered |-> {}]
  /\ notifications = << >>

NoLead == [kind |-> "none"]

\* findExistingLead has not been called
ProbeIdle == probe = [op |-> "idle", user |-> None, name |-> None, phone |-> None, result |-> NoLead]

NoHistory == [kind |-> "none"]

\* no conversation key is stored
HistoryIdle ==
  /\ history = [stored |-> NoHistory, expiresAt |-> 0, added |-> << >>, count |-> 0,
                op |-> "idle", result |-> NoHistory]
  /\ clock = 0

Deliveries == {1, 2}

\* no delivery has arrived
DeliveriesIdle ==
  /\ deliveries = [i \in Deliveries |-> [pc |-> "new", held |-> NoPending, reply |-> None]]
  /\ ledger = [pending |-> NoPending, message |-> None, created |-> << >>]

AnswerIdle ==
  exchange = [pc |-> "idle", ai |-> None, produced |-> None, failed |-> FALSE,
            context |-> None, returned |-> None]

Callers == {1, 2, 3}

\* the singleton after construction: client = null, isConnecting = false
ManagerIdle ==
  /\ manager = [client |-> "null", isConnecting |-> FALSE]
  /\ callers = [i \in Callers |-> [pc |-> "idle", result |-> None, waited |-> FALSE]]

Worlds == {1, 2}
UserA == "userA"
UserB == "userB"
Accounts == {UserA, UserB}

\* both runs start with no username and no confirmation
WorldsIdle ==
  worlds = [w \in Worlds |->
              [username |-> [u \in Accounts |-> None],
               confirmation |-> [u \in Accounts |-> NoPending],
               text |-> None, outcome |-> None]]

Adders == {1, 2}
EmptyHistory == [messages |-> << >>, messageCount |-> 0]

\* no addMessage call is running and the key holds nothing
AddersIdle ==
  /\ adders = [i \in Adders |-> [pc |-> "idle", read |-> EmptyHistory]]
  /\ thread = [stored |-> EmptyHistory, before |-> EmptyHistory]

\* the User row as created: both flags false (schema default), no times
ProfileIdle ==
  profile = [enableMorningNotification |-> FALSE, enableEveningNotification |-> FALSE,
             morningNotificationTime |-> None, eveningNotificationTime |-> None,
             value |-> None, confidence |-> 0]

OtherIdle ==
  /\ ProbeIdle /\ HistoryIdle /\ DeliveriesIdle /\ AnswerIdle /\ ManagerIdle /\ WorldsIdle
  /\ AddersIdle /\ ProfileIdle

AuxIdle == StoreIdle /\ RetryIdle /\ RunIdle /\ SchedIdle /\ OtherIdle

Init ==
  /\ EmptyStores
  /\ last = NoLast
  /\ scenario \in Scenarios
  /\ AuxIdle

Next ==
  \/ \E u \in Users, text \in Texts : RouteSalesConfirmation(u, text)
  \/ \E u \in Users, text \in Texts : RouteFinanceConfirmation(u, text)
  \/ \E u \in Users, text \in Texts : GeneralChat(u, text)
  \/ \E u \in Users, text \in Texts : GeneralSalesTool(u, text)
  \/ \E u \in Users, text \in Texts : GeneralFinanceTool(u, text)
  \/ \E u \in Users, d \in Domains : Expire(u, d)

Spec == Init /\ [][Next]_vars

\* ------------------------------------------------------------------------
\* ConfirmationService in time: the operations on the keys and the Redis clock
\* ------------------------------------------------------------------------
\* redis.setEx(key, 300, data)
\* a lifetime of one hour
TTLSecondsLong == 300 * 12

TTLSeconds == 300

MaxClock == 600

\* the steps of the clock explored
TickSteps == {100, 300}

\* the confirmations stored in the exploration of the keys
StorePayloads ==
  {[type |-> "duplicate_detected",
    proposed |-> ProposedLead(n, NoUpdates),
    duplicateCheck |-> [result |-> "DUPLICATE", confidence |-> AIConfidence,
                        matchedLead |-> "acme", matchedTransaction |-> None],
    similar |-> <<>>] : n \in Names}

\* the expiry SETEX gives a key written at time t
setEx(e, u, d, t) == [e EXCEPT ![u][d] = t + TTLSeconds]

\* what an operation on a key returned
StoreObs(op, u, d, result) == [op |-> op, user |-> u, domain |-> d, result |-> result, at |-> now]

StoreFrame == UNCHANGED <<leads, leadSeq, transactions, txSeq, accounts, scenario, retryVars, failVars, schedVars, otherVars>>

\* ConfirmationService.storePendingConfirmation
Store(u, d, confirmation) ==
  /\ pending' = storePendingConfirmation(pending, u, d, confirmation)
  /\ expiresAt' = setEx(expiresAt, u, d, now)
  /\ written' = [written EXCEPT ![u][d] = [value |-> confirmation, at |-> now,
                                           previous |-> pending[u][d], cleared |-> FALSE,
                                           healed |-> FALSE]]
  /\ last' = StoreObs("store", u, d, NoPending)
  /\ UNCHANGED now
  /\ StoreFrame

\* a get that answers absent for data that does not parse and leaves the key
GetKeepsCorrupt(u, d) ==
  /\ last' = StoreObs("get", u, d, getPendingConfirmation(pending, u, d))
  /\ written' = IF pending[u][d] = CorruptData
                  THEN [written EXCEPT ![u][d].healed = TRUE] ELSE written
  /\ UNCHANGED <<pending, now, expiresAt>>
  /\ StoreFrame

\* ConfirmationService.getPendingConfirmation: data that does not parse is deleted
Get(u, d) ==
  /\ pending' = IF pending[u][d] = CorruptData
                  THEN clearPendingConfirmation(pending, u, d)
                  ELSE pending
  /\ last' = StoreObs("get", u, d, getPendingConfirmation(pending, u, d))
  /\ written' = IF pending[u][d] = CorruptData
                  THEN [written EXCEPT ![u][d].cleared = TRUE, ![u][d].healed = TRUE]
                  ELSE written
  /\ UNCHANGED <<now, expiresAt>>
  /\ StoreFrame

\* ConfirmationService.clearPendingConfirmation
Clear(u, d) ==
  /\ pending' = clearPendingConfirmation(pending, u, d)
  /\ last' = StoreObs("clear", u, d, NoPending)
  /\ written' = [written EXCEPT ![u][d].cleared = TRUE]
  /\ UNCHANGED <<now, expiresAt>>
  /\ StoreFrame

\* ConfirmationService.hasPendingConfirmation
Exists(u, d) ==
  /\ last' = StoreObs("exists", u, d, hasPendingConfirmation(pending, u, d))
  /\ UNCHANGED <<pending, now, expiresAt, written>>
  /\ StoreFrame

\* the stored string of a key is damaged in place (its expiry stays)
Corrupt(u, d) ==
  /\ pending[u][d] \notin {NoPending, CorruptData}
  /\ pending' = [pending EXCEPT ![u][d] = CorruptData]
  /\ last' = StoreObs("corrupt", u, d, NoPending)
  /\ UNCHANGED <<now, expiresAt, written>>
  /\ StoreFrame

\* time passes; Redis drops every key whose expiry has come
Tick(dt) ==
  /\ now + dt <= MaxClock
  /\ now' = now + dt
  /\ pending' = [u \in Users |-> [d \in Domains |->
                   IF pending[u][d] # NoPending /\ expiresAt[u][d] <= now + dt
                     THEN NoPending ELSE pending[u][d]]]
  /\ last' = [StoreObs("tick", None, None, NoPending) EXCEPT !.at = now + dt]
  /\ UNCHANGED <<expiresAt, written>>
  /\ StoreFrame

StoreInit ==
  /\ EmptyStores
  /\ scenario = "both"
  /\ AuxIdle
  /\ last = StoreObs("none", None, None, NoPending)

StoreNext ==
  \/ \E u \in Users, d \in Domains, c \in StorePayloads : Store(u, d, c)
  \/ \E u \in Users, d \in Domains : Get(u, d)
  \/ \E u \in Users, d \in Domains : Clear(u, d)
  \/ \E u \in Users, d \in Domains : Exists(u, d)
  \/ \E u \in Users, d \in Domains : Corrupt(u, d)
  \/ \E dt \in TickSteps : Tick(dt)

StoreSpec == StoreInit /\ [][StoreNext]_vars

\* ------------------------------------------------------------------------
\* BaseAIService.processAIRequest: the retry loop
\* ------------------------------------------------------------------------
RetryFrame ==
  UNCHANGED <<leads, leadSeq, transactions, txSeq, accounts, pending, last, scenario, storeVars, failVars, schedVars, otherVars>>

\* processAIRequest is called: lastError undefined, attempt = 1
Begin ==
  /\ request.phase \in {"idle", "returned", "thrown"}
  /\ request' = [phase |-> "calling", attempt |-> 1, calls |-> 0, first |-> NoError,
                 error |-> NoError, slept |-> 0, value |-> NoValue]
  /\ RetryFrame

\* generateResponse, JSON.parse and schema.parse all succeed: return validatedData
AttemptSucceeds(validatedData) ==
  /\ request.phase = "calling"
  /\ request' = [request EXCEPT !.phase = "returned", !.calls = @ + 1,
                                !.value = validatedData]
  /\ RetryFrame

\* one of the three throws: the catch block sleeps and continues, or rethrows
AttemptFails(error) ==
  /\ request.phase = "calling"
  /\ request' = [request EXCEPT
                   !.calls = @ + 1,
                   !.error = error,
                   !.first = IF request.attempt = 1 THEN error ELSE @,
                   !.phase = IF isRetryableError(error) /\ request.attempt < maxRetries
                               THEN "sleeping" ELSE "thrown"]
  /\ RetryFrame

\* await this.sleep(this.retryDelay * attempt); continue
BackoffElapses ==
  /\ request.phase = "sleeping"
  /\ request' = [request EXCEPT !.phase = "calling", !.attempt = @ + 1,
                                !.slept = @ + retryDelay * request.attempt]
  /\ RetryFrame

RetryInit ==
  /\ EmptyStores
  /\ last = NoLast
  /\ scenario = "both"
  /\ AuxIdle

RetryNext ==
  \/ Begin
  \/ \E v \in ValidatedValues : AttemptSucceeds(v)
  \/ \E e \in AttemptErrors : AttemptFails(e)
  \/ BackoffElapses

RetrySpec == RetryInit /\ [][RetryNext]_vars

\* ------------------------------------------------------------------------
\* The three processMessage entry points when the AI provider, the durable store
\* or Redis fail: every call that can reject either succeeds or throws
\* ------------------------------------------------------------------------
Components == {"ai", "store", "cache"}
EntryPoints == {"router", "sales", "finance"}

FailFrame ==
  UNCHANGED <<leads, leadSeq, transactions, txSeq, accounts, pending, last, scenario,
              storeVars, retryVars, schedVars, otherVars>>

\* the call at the current position ended with result, control goes to pc
Goto(pc, result) ==
  run' = [run EXCEPT !.pc = pc, !.log = Append(@, [at |-> run.pc, result |-> result])]

\* return of a string: to the router when it made the call, to the caller otherwise
ReturnString(result) ==
  IF run.caller = "router" /\ run.entry # "router"
    THEN run' = [run EXCEPT !.entry = "router", !.caller = None, !.pc = "r_history_reply",
                            !.log = Append(@, [at |-> run.pc, result |-> result])]
    ELSE run' = [run EXCEPT !.pc = "done", !.outcome = "returned",
                            !.log = Append(@, [at |-> run.pc, result |-> result])]

\* the exception leaves the entry point
Escape(result) ==
  run' = [run EXCEPT !.pc = "done", !.outcome = "escaped",
                     !.log = Append(@, [at |-> run.pc, result |-> result])]

\* ConversationHistoryService.addMessage: getClient() is awaited before the try
\* block, so its rejection is thrown; what fails inside the try is swallowed
AddMessageResults == {"ok", "swallowed", "throw_cache"}

\* an entry point is called
Enter(entry) ==
  /\ run.outcome # "running"
  /\ run' = [entry |-> entry, caller |-> None, outcome |-> "running", log |-> << >>,
             pc |-> IF entry = "router" THEN "r_history_user" ELSE "s_try"]
  /\ FailFrame

\* router step 1: addMessage(userId, 'user', message, 'general')
HistoryUser(result) ==
  /\ run.pc = "r_history_user"
  /\ Goto(IF result = "throw_cache" THEN "r_catch" ELSE "r_has_pending", result)
  /\ FailFrame

\* router step 2: the two hasPendingConfirmation calls
HasPending(result) ==
  /\ run.pc = "r_has_pending"
  /\ Goto(IF result = "throw_cache" THEN "r_catch" ELSE "r_dispatch", result)
  /\ FailFrame

\* router: the confirmation branches call a domain service, the else branch
\* calls processMessageWithContext
Dispatch(route) ==
  /\ run.pc = "r_dispatch"
  /\ IF route = "general"
       THEN Goto("g_context", route)
       ELSE run' = [run EXCEPT !.entry = route, !.caller = "router", !.pc = "s_try",
                               !.log = Append(@, [at |-> run.pc, result |-> route])]
  /\ FailFrame

\* processMessageWithContext: detectAndRetrieveContext; a throw falls back to
\* processNormalMessage
DetectContext(result) ==
  /\ run.pc = "g_context"
  /\ Goto(IF result = "entity" THEN "g_enhanced" ELSE "g_normal", result)
  /\ FailFrame

\* router processWithEnhancedContext: its catch falls back to processNormalMessage
Enhanced(result) ==
  /\ run.pc = "g_enhanced"
  /\ Goto(IF result = "ok" THEN "r_extract" ELSE "g_normal", result)
  /\ FailFrame

\* router processNormalMessage: nothing catches what it throws but the router
Normal(result) ==
  /\ run.pc = "g_normal"
  /\ Goto(IF result = "ok" THEN "r_extract" ELSE "r_catch", result)
  /\ FailFrame

\* router: extractJsonPayload(response) throws when the text holds no JSON
ExtractContext(result) ==
  /\ run.pc = "r_extract"
  /\ Goto(IF result = "ok" THEN "r_history_reply" ELSE "r_catch", result)
  /\ FailFrame

\* router: addMessage(userId, 'assistant', response, responseContext); return response
HistoryReply(result) ==
  /\ run.pc = "r_history_reply"
  /\ IF result = "throw_cache" THEN Goto("r_catch", result) ELSE ReturnString(result)
  /\ FailFrame

\* router catch block: logError, addMessage(userId, 'assistant', errorResponse,
\* 'general'), return errorResponse
RouterCatch(result) ==
  /\ run.pc = "r_catch"
  /\ IF result = "throw_cache" THEN Escape(result) ELSE ReturnString(result)
  /\ FailFrame

\* a domain service's processMessage: the grammar test picks the branch
ServiceTry(branch) ==
  /\ run.pc = "s_try"
  /\ Goto(IF branch = "confirmation" THEN "s_get_pending" ELSE "s_intent", branch)
  /\ FailFrame

\* handleConfirmation: getPendingConfirmation
GetPending(result) ==
  /\ run.pc = "s_get_pending"
  /\ Goto(IF result = "ok" THEN "s_pending_action" ELSE "s_catch", result)
  /\ FailFrame

\* executePendingAction: the try block
PendingAction(result) ==
  /\ run.pc = "s_pending_action"
  /\ IF result = "ok" THEN ReturnString(result) ELSE Goto("s_inner_catch", result)
  /\ FailFrame

\* executePendingAction: the catch block clears the pending confirmation
InnerCatch(result) ==
  /\ run.pc = "s_inner_catch"
  /\ IF result = "ok" THEN ReturnString(result) ELSE Goto("s_catch", result)
  /\ FailFrame

\* processMessageWithContext (sales) or processAIRequest and the dispatch (finance)
Intent(result) ==
  /\ run.pc = "s_intent"
  /\ IF result = "ok" THEN ReturnString(result) ELSE Goto("s_catch", result)
  /\ FailFrame

\* a domain service's catch block: return this.logError(error, ...)
ServiceCatch ==
  /\ run.pc = "s_catch"
  /\ ReturnString("friendly_error")
  /\ FailFrame

FailInit ==
  /\ EmptyStores
  /\ last = NoLast
  /\ scenario = "both"
  /\ AuxIdle

FailNext ==
  \/ \E entry \in EntryPoints : Enter(entry)
  \/ \E r \in AddMessageResults : HistoryUser(r)
  \/ \E r \in {"ok", "throw_cache"} : HasPending(r)
  \/ \E route \in {"sales", "finance", "general"} : Dispatch(route)
  \/ \E r \in {"entity", "none", "throw_ai", "throw_store"} : DetectContext(r)
  \/ \E r \in {"ok", "throw_ai", "throw_store", "throw_cache"} : Enhanced(r)
  \/ \E r \in {"ok", "throw_ai", "throw_store", "throw_cache"} : Normal(r)
  \/ \E r \in {"ok", "throw_no_json"} : ExtractContext(r)
  \/ \E r \in AddMessageResults : HistoryReply(r)
  \/ \E r \in AddMessageResults : RouterCatch(r)
  \/ \E branch \in {"confirmation", "intent"} : ServiceTry(branch)
  \/ \E r \in {"ok", "throw_cache"} : GetPending(r)
  \/ \E r \in {"ok", "throw_store"} : PendingAction(r)
  \/ \E r \in {"ok", "throw_cache"} : InnerCatch(r)
  \/ \E r \in {"ok", "throw_ai", "throw_store", "throw_cache"} : Intent(r)
  \/ ServiceCatch

FailSpec == FailInit /\ [][FailNext]_vars

\* ------------------------------------------------------------------------
\* NotificationSchedulerService.checkAndSendNotifications and the two sends of
\* NotificationService it awaits, one due user after the other
\* ------------------------------------------------------------------------
SchedUsers == {"u1", "u2"}

\* what prisma.user.findMany can return: the due users in any order
DueLists ==
  {<< >>} \cup {<<u>> : u \in SchedUsers}
          \cup {<<u, v>> : <<u, v>> \in {p \in SchedUsers \X SchedUsers : p[1] # p[2]}}

\* the sends of a run: sendMorningDigest for each morning user, then
\* sendEveningSummary for each evening user
SendsOf(morningUsers, eveningUsers) ==
  [i \in 1..Len(morningUsers) |-> [userId |-> morningUsers[i], type |-> "morning"]]
    \o [i \in 1..Len(eveningUsers) |-> [userId |-> eveningUsers[i], type |-> "evening"]]

SchedFrame ==
  UNCHANGED <<leads, leadSeq, transactions, txSeq, accounts, pending, last, scenario,
              storeVars, retryVars, failVars, otherVars>>

\* the send being served
Current == batch.queue[1]

\* the current send is over: the for loop takes the next user
NextUser(b) ==
  [b EXCEPT !.queue = Tail(@), !.pc = IF Len(b.queue) = 1 THEN "finished" ELSE "generate"]

\* sendMorningDigest / sendEveningSummary is called for the head of the queue
StartSend(b) == [b EXCEPT !.attempted = Append(@, b.queue[1])]

\* the cron task fires: both findMany calls return
StartRun(morningUsers, eveningUsers) ==
  /\ batch.pc \in {"idle", "finished", "aborted"}
  /\ LET sends == SendsOf(morningUsers, eveningUsers) IN
     batch' = [pc |-> IF sends = << >> THEN "finished" ELSE "generate",
               due |-> sends, queue |-> sends, attempted |-> << >>,
               failed |-> {}, delivered |-> {}]
  /\ notifications' = << >>
  /\ SchedFrame

\* the cron task fires and a findMany call throws: 'Notification check failed'
StartRunFails ==
  /\ batch.pc \in {"idle", "finished", "aborted"}
  /\ batch' = [pc |-> "aborted", due |-> << >>, queue |-> << >>, attempted |-> << >>,
               failed |-> {}, delivered |-> {}]
  /\ notifications' = << >>
  /\ SchedFrame

\* getUserWithRelations, prepare...Data and generateResponse: the text is
\* generated, the user is gone or has the notification disabled, or a call throws
Generate(result) ==
  /\ batch.pc = "generate"
  /\ batch' = CASE result = "ok" -> [StartSend(batch) EXCEPT !.pc = "send"]
                [] result = "skip" -> NextUser(StartSend(batch))
                [] OTHER -> [StartSend(batch) EXCEPT !.pc = "log_failed",
                                                    !.failed = @ \cup {Current}]
  /\ UNCHANGED notifications
  /\ SchedFrame

\* sendNotification: provider.sendMessage
Send(result) ==
  /\ batch.pc = "send"
  /\ batch' = IF result = "ok"
                THEN [batch EXCEPT !.pc = "record_sent", !.delivered = @ \cup {Current}]
                ELSE [batch EXCEPT !.pc = "log_failed", !.failed = @ \cup {Current}]
  /\ UNCHANGED notifications
  /\ SchedFrame

\* sendNotification: prisma.notification.create with status 'sent'; a throw is
\* caught by the same catch block as a failed sendMessage
RecordSent(result) ==
  /\ batch.pc = "record_sent"
  /\ IF result = "ok"
       THEN /\ notifications' = Append(notifications,
                                      [userId |-> Current.userId, type |-> Current.type,
                                       status |-> "sent"])
            /\ batch' = NextUser(batch)
       ELSE /\ batch' = [batch EXCEPT !.pc = "log_failed"]
            /\ UNCHANGED notifications
  /\ SchedFrame

\* logFailedNotification: prisma.notification.create with status 'failed'; a
\* throw is logged and swallowed
logFailedNotification(result) ==
  /\ batch.pc = "log_failed"
  /\ notifications' = IF result = "ok"
                        THEN Append(notifications,
                                    [userId |-> Current.userId, type |-> Current.type,
                                     status |-> "failed"])
                        ELSE notifications
  /\ batch' = NextUser(batch)
  /\ SchedFrame

SchedInit ==
  /\ EmptyStores
  /\ last = NoLast
  /\ scenario = "both"
  /\ AuxIdle

SchedNext ==
  \/ \E morningUsers \in DueLists, eveningUsers \in DueLists : StartRun(morningUsers, eveningUsers)
  \/ StartRunFails
  \/ \E r \in {"ok", "skip", "throw_store", "throw_ai"} : Generate(r)
  \/ \E r \in {"ok", "throw"} : Send(r)
  \/ \E r \in {"ok", "throw_store"} : RecordSent(r)
  \/ \E r \in {"ok", "throw_store"} : logFailedNotification(r)

SchedSpec == SchedInit /\ [][SchedNext]_vars

\* ------------------------------------------------------------------------
\* SalesService.findExistingLead over a table of leads of two users
\* ------------------------------------------------------------------------
MaxMatcherLeads == 2

MatcherUsers == {"u1", "u2"}

\* the rows the table is drawn from: names as createLead stores them
MatcherRows ==
  [userId : MatcherUsers, name : {"acme", "acme corp", "bob"}, phone : {None, "0821"},
   status : {"New"}, notes : {None}]

\* the tables of at most MaxMatcherLeads rows, ids in order of creation
MatcherTables ==
  UNION {{ {[id |-> i, userId |-> q[i].userId, name |-> q[i].name, phone |-> q[i].phone,
             status |-> q[i].status, notes |-> q[i].notes] : i \in 1..n}
           : q \in [1..n -> MatcherRows]} : n \in 0..MaxMatcherLeads}

\* the names and phones asked for
MatcherNames == {"Acme", "ACME!", " acme  corp ", "Bob", "zed", "!"}
MatcherPhones == {None, "0821", "0999"}

MatchFrame ==
  UNCHANGED <<leadSeq, transactions, txSeq, accounts, pending, last, scenario,
              storeVars, retryVars, failVars, schedVars, histVars, dupVars, replyVars,
              clientVars, worldVars, raceVars, prefVars>>

\* a call of findExistingLead: it reads, and writes nothing
Find(u, name, phone) ==
  /\ LET found == findExistingLead(u, name, phone) IN
     \E result \in (IF found = {} THEN {NoLead} ELSE found) :
       probe' = [op |-> "find", user |-> u, name |-> name, phone |-> phone, result |-> result]
  /\ UNCHANGED leads
  /\ MatchFrame

MatchInit ==
  /\ leads \in MatcherTables
  /\ leadSeq = Cardinality(leads)
  /\ transactions = {}
  /\ txSeq = 0
  /\ accounts = {}
  /\ pending = [u \in Users |-> [d \in Domains |-> NoPending]]
  /\ last = NoLast
  /\ scenario = "sales"
  /\ AuxIdle

MatchNext ==
  \E u \in MatcherUsers, name \in MatcherNames, phone \in MatcherPhones : Find(u, name, phone)

MatchSpec == MatchInit /\ [][MatchNext]_vars

\* ------------------------------------------------------------------------
\* ConversationHistoryService: addMessage and getHistory on one user's key
\* ------------------------------------------------------------------------
MAX_MESSAGES == 20
TTL_SECONDS == 7200

MaxAdds == 22
MaxHistoryClock == 14400
HistorySteps == {1800, 7200}

HistFrame ==
  UNCHANGED <<leads, leadSeq, transactions, txSeq, accounts, pending, last, scenario,
              storeVars, retryVars, failVars, schedVars, matchVars, dupVars, replyVars,
              clientVars, worldVars, raceVars, prefVars>>

\* messages.slice(0, k): the first k messages
sliceFirst(messages, k) ==
  IF Len(messages) > k THEN SubSeq(messages, 1, k) ELSE messages

\* messages.slice(-k): the last k messages
sliceLast(messages, k) ==
  IF Len(messages) > k THEN SubSeq(messages, Len(messages) - k + 1, Len(messages)) ELSE messages

\* addMessage: read the key, push the message, keep the last MAX_MESSAGES,
\* write the key back with the TTL
addMessage(content) ==
  /\ history.count < MaxAdds
  /\ LET existing == IF history.stored = NoHistory THEN << >> ELSE history.stored.messages
         pushed == Append(existing, content)
         kept == IF Len(pushed) > MAX_MESSAGES THEN sliceLast(pushed, MAX_MESSAGES) ELSE pushed
     IN history' = [history EXCEPT !.stored = [messages |-> kept],
                                   !.expiresAt = clock + TTL_SECONDS,
                                   !.added = Append(@, content),
                                   !.count = @ + 1,
                                   !.op = "add", !.result = NoHistory]
  /\ UNCHANGED clock
  /\ HistFrame

\* getHistory: null for no key; otherwise the history, and EXPIRE with the TTL
getHistory ==
  /\ history' = IF history.stored = NoHistory
                  THEN [history EXCEPT !.op = "read_miss", !.result = NoHistory]
                  ELSE [history EXCEPT !.op = "read_hit", !.result = history.stored,
                                       !.expiresAt = clock + TTL_SECONDS]
  /\ UNCHANGED clock
  /\ HistFrame

\* time passes; Redis drops the key when its expiry has come
HistoryTick(dt) ==
  /\ clock + dt <= MaxHistoryClock
  /\ clock' = clock + dt
  /\ history' = IF history.stored # NoHistory /\ history.expiresAt <= clock + dt
                  THEN [history EXCEPT !.stored = NoHistory, !.added = << >>,
                                       !.op = "expired", !.result = NoHistory]
                  ELSE [history EXCEPT !.op = "tick", !.result = NoHistory]
  /\ HistFrame

HistInit ==
  /\ EmptyStores
  /\ last = NoLast
  /\ scenario = "both"
  /\ AuxIdle

HistNext ==
  \/ addMessage(history.count + 1)
  \/ getHistory
  \/ \E dt \in HistorySteps : HistoryTick(dt)

HistSpec == HistInit /\ [][HistNext]_vars

\* ------------------------------------------------------------------------
\* FinanceService.handleConfirmation under two deliveries of one reply
\* ------------------------------------------------------------------------
ProposedTransactions == {"rent", "lunch", "fuel"}
AddNewReplies == {"yes", "Y", " confirm "}

DupFrame ==
  UNCHANGED <<leads, leadSeq, transactions, txSeq, accounts, pending, last, scenario,
              storeVars, retryVars, failVars, schedVars, matchVars, histVars, replyVars,
              clientVars, worldVars, raceVars, prefVars>>

\* handleConfirmation: await getPendingConfirmation; without one the message
\* goes to processNormalMessage, which creates nothing from the proposal
ReadPending(i) ==
  /\ deliveries[i].pc = "new"
  /\ FinanceIsConfirmationMessage(ledger.message)
  /\ deliveries' = [deliveries EXCEPT ![i] =
                      IF ledger.pending = NoPending
                        THEN [pc |-> "done", held |-> NoPending, reply |-> "normal"]
                        ELSE [pc |-> "read", held |-> ledger.pending, reply |-> None]]
  /\ UNCHANGED ledger
  /\ DupFrame

\* executePendingAction 'add_new': await prisma.transaction.create from the
\* proposedTransaction of the confirmation this delivery read
CreateFromProposal(i) ==
  /\ deliveries[i].pc = "read"
  /\ ledger' = [ledger EXCEPT !.created = Append(@, deliveries[i].held.proposedTransaction)]
  /\ deliveries' = [deliveries EXCEPT ![i].pc = "created"]
  /\ DupFrame

\* executePendingAction: await clearPendingConfirmation, then the reply
ClearAfterCreate(i) ==
  /\ deliveries[i].pc = "created"
  /\ ledger' = [ledger EXCEPT !.pending = NoPending]
  /\ deliveries' = [deliveries EXCEPT ![i].pc = "done", ![i].reply = "added"]
  /\ DupFrame

DupInit ==
  /\ EmptyStores
  /\ last = NoLast
  /\ scenario = "both"
  /\ StoreIdle /\ RetryIdle /\ RunIdle /\ SchedIdle
  /\ ProbeIdle /\ HistoryIdle /\ AnswerIdle /\ ManagerIdle /\ WorldsIdle /\ AddersIdle
  /\ ProfileIdle
  /\ deliveries = [i \in Deliveries |-> [pc |-> "new", held |-> NoPending, reply |-> None]]
  /\ \E tx \in ProposedTransactions, m \in AddNewReplies :
       ledger = [pending |-> [type |-> "finance_duplicate", proposedTransaction |-> tx],
                 message |-> m, created |-> << >>]

DupNext ==
  \E i \in Deliveries :
    \/ ReadPending(i)
    \/ CreateFromProposal(i)
    \/ ClearAfterCreate(i)

DupSpec == DupInit /\ [][DupNext]_vars

\* ------------------------------------------------------------------------
\* The general path of ConversationalAIService.processMessage
\* ------------------------------------------------------------------------
\* a TLA+ string cannot hold the grave accent: "~" stands for it in every text
Fence == "~~~"
FenceOpen == "~~~json"

FenceAt(text, i) == i + 2 <= Len(text) /\ SubSeq(text, i, i + 2) = Fence
FenceOpenAt(text, i) == i + 6 <= Len(text) /\ SubSeq(text, i, i + 6) = FenceOpen

\* the capture of /~~~json\s*([\s\S]+?)~~~/ whose opener is at i, taking k
\* characters for \s*; None when no closing fence leaves the capture a character
FencedCapture(text, i, k) ==
  LET from == i + 7 + k
      closers == {c \in (from + 1)..Len(text) : FenceAt(text, c)}
  IN IF from <= Len(text) /\ AllSpaces(SubSeq(text, i + 7, from - 1)) /\ closers # {}
       THEN SubSeq(text, from, (CHOOSE c \in closers : \A e \in closers : c <= e) - 1)
       ELSE None

\* text.match(/~~~json\s*([\s\S]+?)~~~/)[1]: leftmost opener, \s* greedy, the capture lazy
MatchFenced(text) ==
  LET hits == {i \in 1..Len(text) :
                 FenceOpenAt(text, i) /\ \E k \in 0..Len(text) : FencedCapture(text, i, k) # None}
  IN IF hits = {} THEN None
     ELSE LET i == CHOOSE h \in hits : \A g \in hits : h <= g
              ks == {k \in 0..Len(text) : FencedCapture(text, i, k) # None}
          IN FencedCapture(text, i, CHOOSE k \in ks : \A j \in ks : j <= k)

\* text.match(/\{[\s\S]+\}/)[0]: leftmost brace that has a closing brace at
\* least two characters on, up to the last closing brace
MatchBraces(text) ==
  LET closes(i) == {j \in (i + 2)..Len(text) : Ch(text, j) = "}"}
      hits == {i \in 1..Len(text) : Ch(text, i) = "{" /\ closes(i) # {}}
  IN IF hits = {} THEN None
     ELSE LET i == CHOOSE h \in hits : \A g \in hits : h <= g
          IN SubSeq(text, i, CHOOSE j \in closes(i) : \A e \in closes(i) : e <= j)

\* JSON.parse accepts t; the grammar is JSON without arrays, nesting, escapes
\* and inner white space, which is all the texts explored here use
IsJsonString(t) ==
  /\ Len(t) >= 2
  /\ Ch(t, 1) = "\"" /\ Ch(t, Len(t)) = "\""
  /\ \A i \in 2..(Len(t) - 1) : Ch(t, i) \notin {"\"", "\\"}

IsJsonScalar(t) ==
  \/ IsJsonString(t)
  \/ t \in {"true", "false", "null"}
  \/ (Len(t) > 0 /\ AllDigits(t))

IsJsonMember(t) ==
  \E k \in 1..Len(t) :
    /\ Ch(t, k) = ":"
    /\ IsJsonString(SubSeq(t, 1, k - 1))
    /\ IsJsonScalar(SubSeq(t, k + 1, Len(t)))

RECURSIVE IsJsonMembers(_)
IsJsonMembers(t) ==
  \/ IsJsonMember(t)
  \/ \E k \in 1..Len(t) :
       /\ Ch(t, k) = ","
       /\ IsJsonMember(SubSeq(t, 1, k - 1))
       /\ IsJsonMembers(SubSeq(t, k + 1, Len(t)))

IsJsonObject(t) ==
  /\ Len(t) >= 2
  /\ Ch(t, 1) = "{" /\ Ch(t, Len(t)) = "}"
  /\ (Len(t) = 2 \/ IsJsonMembers(SubSeq(t, 2, Len(t) - 1)))

JsonParses(t) == IsJsonObject(Trim(t)) \/ IsJsonScalar(Trim(t))

\* extractJsonPayload(text) throws: no match of either pattern, or JSON.parse
\* rejects match[1] || match[0]
extractJsonPayloadThrows(text) ==
  LET fenced == MatchFenced(text)
      braces == MatchBraces(text)
  IN IF fenced # None THEN ~JsonParses(fenced)
     ELSE IF braces # None THEN ~JsonParses(braces)
     ELSE TRUE

\* jsonResponse.context of the router throws a TypeError on a parsed null
ContextReadThrows(text) ==
  LET fenced == MatchFenced(text) IN fenced # None /\ Trim(fenced) = "null"

DefaultResponse == "I'm here to help! What can I do for you?"
FriendlyError == "friendly error message"

RECURSIVE JoinResults(_)
JoinResults(results) ==
  IF Len(results) = 0 THEN ""
  ELSE IF Len(results) = 1 THEN results[1]
  ELSE results[1] \o "\n\n" \o JoinResults(Tail(results))

\* buildFinalResponse
buildFinalResponse(aiResponse, toolResults) ==
  LET first == IF Trim(aiResponse) # "" THEN aiResponse ELSE ""
      final == IF Len(toolResults) > 0
                 THEN IF first # "" THEN first \o "\n\n" \o JoinResults(toolResults)
                      ELSE JoinResults(toolResults)
                 ELSE first
  IN IF final # "" THEN final ELSE DefaultResponse

\* jsonResponse.response of the provider's payload
AiResponses ==
  {"Hi there", "", "  ", "Use {name} now", "{\"context\":\"sales\"}",
   "Next: {\"context\":\"finance\",\"n\":2} ok", FenceOpen \o " {\"context\":\"sales\"} " \o Fence,
   FenceOpen \o " null" \o Fence, "{}"}

\* what the tool calls of the payload returned
ToolResultLists ==
  {<< >>, <<"Lead added">>, <<"Lead added", "R50 logged">>, <<"Status {New}">>}

ReplyFrame ==
  UNCHANGED <<leads, leadSeq, transactions, txSeq, accounts, pending, last, scenario,
              storeVars, retryVars, failVars, schedVars, matchVars, histVars, dupVars,
              clientVars, worldVars, raceVars, prefVars>>

\* processMessageWithContext up to the provider's payload; when the provider
\* fails on every fallback the error reaches the router's catch
GeneratePayload(ai, result) ==
  /\ exchange.pc = "idle"
  /\ exchange' = IF result = "ok"
                 THEN [exchange EXCEPT !.pc = "payload", !.ai = ai]
                 ELSE [exchange EXCEPT !.pc = "caught", !.failed = TRUE]
  /\ ReplyFrame

\* processAIResponse: setup actions, tool calls, buildFinalResponse
ProcessAIResponse(toolResults) ==
  /\ exchange.pc = "payload"
  /\ exchange' = [exchange EXCEPT !.pc = "produced",
                               !.produced = buildFinalResponse(exchange.ai, toolResults)]
  /\ ReplyFrame

\* the router: extractJsonPayload(response), then jsonResponse.context || 'general'
ExtractResponseContext ==
  /\ exchange.pc = "produced"
  /\ exchange' = IF extractJsonPayloadThrows(exchange.produced) \/ ContextReadThrows(exchange.produced)
                 THEN [exchange EXCEPT !.pc = "caught"]
                 ELSE [exchange EXCEPT !.pc = "extracted", !.context = "read"]
  /\ ReplyFrame

\* the router: addMessage of the response, return response
ReturnResponse ==
  /\ exchange.pc = "extracted"
  /\ exchange' = [exchange EXCEPT !.pc = "returned", !.returned = exchange.produced]
  /\ ReplyFrame

\* the router's catch: logError, addMessage of the error response, return it
ReturnError ==
  /\ exchange.pc = "caught"
  /\ exchange' = [exchange EXCEPT !.pc = "returned", !.returned = FriendlyError]
  /\ ReplyFrame

ReplyInit ==
  /\ EmptyStores
  /\ last = NoLast
  /\ scenario = "both"
  /\ AuxIdle

ReplyNext ==
  \/ \E ai \in AiResponses, r \in {"ok", "throw_ai"} : GeneratePayload(ai, r)
  \/ \E toolResults \in ToolResultLists : ProcessAIResponse(toolResults)
  \/ ExtractResponseContext
  \/ ReturnResponse
  \/ ReturnError

ReplySpec == ReplyInit /\ [][ReplyNext]_vars

\* ------------------------------------------------------------------------
\* RedisManager.getClient under concurrent calls
\* ------------------------------------------------------------------------
\* manager.client is "null", "closed" (created, isOpen false) or "open"
ClientFrame ==
  UNCHANGED <<leads, leadSeq, transactions, txSeq, accounts, pending, last, scenario,
              storeVars, retryVars, failVars, schedVars, matchVars, histVars, dupVars,
              replyVars, worldVars, raceVars, prefVars>>

\* getClient up to its first await: the open client is returned; a call that
\* finds isConnecting waits; otherwise isConnecting = true and createClient,
\* which leaves the client as it was when it throws
EnterGetClient(i, created) ==
  /\ callers[i].pc = "idle"
  /\ IF manager.client = "open"
       THEN /\ callers' = [callers EXCEPT ![i].pc = "returned", ![i].result = "open"]
            /\ UNCHANGED manager
       ELSE IF manager.isConnecting
         THEN /\ callers' = [callers EXCEPT ![i].pc = "waiting", ![i].waited = TRUE]
              /\ UNCHANGED manager
         ELSE IF created
           THEN /\ manager' = [client |-> "closed", isConnecting |-> TRUE]
                /\ callers' = [callers EXCEPT ![i].pc = "connecting"]
           ELSE /\ manager' = [manager EXCEPT !.isConnecting = FALSE]
                /\ callers' = [callers EXCEPT ![i].pc = "threw"]
  /\ ClientFrame

\* await this.client.connect() resolved: isConnecting = false, return this.client
ConnectResolves(i) ==
  /\ callers[i].pc = "connecting"
  /\ manager' = [client |-> "open", isConnecting |-> FALSE]
  /\ callers' = [callers EXCEPT ![i].pc = "returned", ![i].result = "open"]
  /\ ClientFrame

\* await this.client.connect() rejected: the catch sets isConnecting = false and rethrows
ConnectRejects(i) ==
  /\ callers[i].pc = "connecting"
  /\ manager' = [manager EXCEPT !.isConnecting = FALSE]
  /\ callers' = [callers EXCEPT ![i].pc = "threw"]
  /\ ClientFrame

\* the 100 ms timer of a waiting call fires: the loop ends when isConnecting
\* is false, and the call returns this.client
WaiterWakes(i) ==
  /\ callers[i].pc = "waiting"
  /\ ~manager.isConnecting
  /\ callers' = [callers EXCEPT ![i].pc = "returned", ![i].result = manager.client]
  /\ UNCHANGED manager
  /\ ClientFrame

\* the caller calls getClient again
CallAgain(i) ==
  /\ callers[i].pc \in {"returned", "threw"}
  /\ callers' = [callers EXCEPT ![i] = [pc |-> "idle", result |-> None, waited |-> FALSE]]
  /\ UNCHANGED manager
  /\ ClientFrame

ClientInit ==
  /\ EmptyStores
  /\ last = NoLast
  /\ scenario = "both"
  /\ AuxIdle

ClientNext ==
  \E i \in Callers :
    \/ \E created \in BOOLEAN : EnterGetClient(i, created)
    \/ ConnectResolves(i)
    \/ ConnectRejects(i)
    \/ WaiterWakes(i)
    \/ CallAgain(i)

ClientSpec == ClientInit /\ [][ClientNext]_vars

\* ------------------------------------------------------------------------
\* MessageRouterService.processMessage and the usernames of other users
\* ------------------------------------------------------------------------
WorldFrame ==
  UNCHANGED <<leads, leadSeq, transactions, txSeq, accounts, pending, last, scenario,
              storeVars, retryVars, failVars, schedVars, matchVars, histVars, dupVars,
              replyVars, clientVars, raceVars, prefVars>>

\* replace(/\s+/g, '_')
RECURSIVE UnderscoreSpaces(_)
UnderscoreSpaces(s) ==
  IF Len(s) = 0 THEN ""
  ELSE IF IsSpace(Ch(s, 1)) THEN "_" \o UnderscoreSpaces(TrimStart(s))
  ELSE Ch(s, 1) \o UnderscoreSpaces(SubSeq(s, 2, Len(s)))

\* replace(/[^a-zA-Z0-9_]/g, '')
RECURSIVE KeepWordChars(_)
KeepWordChars(s) ==
  IF Len(s) = 0 THEN ""
  ELSE (IF IsWordChar(Ch(s, 1)) THEN Ch(s, 1) ELSE "") \o KeepWordChars(SubSeq(s, 2, Len(s)))

\* ConversationalAIService.cleanUsername
cleanUsername(value) ==
  LET kept == KeepWordChars(UnderscoreSpaces(ToLowerCase(value)))
  IN SubSeq(kept, 1, IF Len(kept) < 30 THEN Len(kept) ELSE 30)

\* getMinConfidence, in hundredths
getMinConfidence(action) == IF action = "set_notifications" THEN 80 ELSE 70

\* MessageRouterService.extractUsername
extractUsername(message) ==
  LET trimmed == Trim(message)
  IN IF /\ Len(trimmed) > 0
        /\ \A i \in 1..Len(trimmed) : IsWordChar(Ch(trimmed, i))
        /\ Len(trimmed) > 2
       THEN ToLowerCase(trimmed)
       ELSE None

\* UserService.getUserByUsername: the users holding the username (at most one)
getUserByUsername(world, username) == {u \in Accounts : world.username[u] = username}

\* executeSetupAction 'set_username' with handleUsernameSetup and updateUsername
SetUsername(world, u, value, confidence) ==
  LET clean == cleanUsername(value)
  IN IF confidence <= getMinConfidence("set_username") THEN world
     ELSE IF Len(clean) < 2 THEN world
     ELSE IF \E other \in getUserByUsername(world, clean) : other # u THEN world
     ELSE [world EXCEPT !.username[u] = clean]

\* MessageRouterService.processMessage for a message of u: a text that is the
\* username of another user is answered "belongs to someone else" and goes no
\* further; otherwise the router dispatches it, and the finance service
\* resolves the pending confirmation on an add-new or a cancel reply
RouterProcessMessage(world, u, text) ==
  LET usernameMatch == extractUsername(text)
      blocked == /\ usernameMatch # None
                 /\ \E other \in getUserByUsername(world, usernameMatch) : other # u
      confirming == /\ world.confirmation[u] # NoPending
                    /\ looksLikeConfirmation(text)
                    /\ FinanceIsConfirmationMessage(text)
      resolves == ToLowerCase(Trim(text)) \in
                    {"yes", "y", "confirm", "add new", "new transaction", "no", "n", "cancel", "abort"}
  IN IF blocked THEN [world EXCEPT !.text = text, !.outcome = "username_taken"]
     ELSE IF confirming
       THEN [world EXCEPT !.text = text, !.outcome = "finance_confirmation",
                          !.confirmation[u] = IF resolves THEN NoPending ELSE @]
       ELSE [world EXCEPT !.text = text, !.outcome = "general"]

UsernameValues == {"Yes", "cancel", "Show 1", "x", "Bob the 2nd!", "update"}
ReplyTexts == {"yes", " Cancel ", "update", "show 1", "no", "confirm", "hello there"}

\* user B sets a username in one of the runs
BSetsUsername(w, value, confidence) ==
  /\ worlds' = [worlds EXCEPT ![w] = SetUsername(worlds[w], UserB, value, confidence)]
  /\ WorldFrame

\* a finance duplicate of user A is stored in both runs
AStoresConfirmation ==
  /\ worlds' = [w \in Worlds |->
                  [worlds[w] EXCEPT !.confirmation[UserA] = [type |-> "transaction_duplicate"],
                                    !.text = None, !.outcome = None]]
  /\ WorldFrame

\* user A sends the same message in both runs
ASendsMessage(text) ==
  /\ worlds' = [w \in Worlds |-> RouterProcessMessage(worlds[w], UserA, text)]
  /\ WorldFrame

WorldInit ==
  /\ EmptyStores
  /\ last = NoLast
  /\ scenario = "both"
  /\ AuxIdle

WorldNext ==
  \/ \E w \in Worlds, value \in UsernameValues, confidence \in {70, 90} :
       BSetsUsername(w, value, confidence)
  \/ AStoresConfirmation
  \/ \E text \in ReplyTexts : ASendsMessage(text)

WorldSpec == WorldInit /\ [][WorldNext]_vars

\* ------------------------------------------------------------------------
\* ConversationHistoryService.addMessage: two calls for one user at once
\* ------------------------------------------------------------------------
RaceFrame ==
  UNCHANGED <<leads, leadSeq, transactions, txSeq, accounts, pending, last, scenario,
              storeVars, retryVars, failVars, schedVars, matchVars, histVars, dupVars,
              replyVars, clientVars, worldVars, prefVars>>

\* the message that call i adds
NewMessage(i) == 100 + i

\* await redis.get(key) and JSON.parse, or the new empty history
ReadHistory(i) ==
  /\ adders[i].pc = "idle"
  /\ adders' = [adders EXCEPT ![i] = [pc |-> "read", read |-> thread.stored]]
  /\ UNCHANGED thread
  /\ RaceFrame

\* push, messageCount++, slice(-MAX_MESSAGES), await redis.setEx of the
\* history this call read
WriteHistory(i) ==
  /\ adders[i].pc = "read"
  /\ LET pushed == Append(adders[i].read.messages, NewMessage(i))
         kept == IF Len(pushed) > MAX_MESSAGES THEN sliceLast(pushed, MAX_MESSAGES) ELSE pushed
     IN thread' = [thread EXCEPT !.stored = [messages |-> kept,
                                             messageCount |-> adders[i].read.messageCount + 1]]
  /\ adders' = [adders EXCEPT ![i].pc = "done"]
  /\ RaceFrame

\* the key holds the last messages of an earlier conversation
RaceInit ==
  /\ EmptyStores
  /\ last = NoLast
  /\ scenario = "both"
  /\ StoreIdle /\ RetryIdle /\ RunIdle /\ SchedIdle
  /\ ProbeIdle /\ HistoryIdle /\ DeliveriesIdle /\ AnswerIdle /\ ManagerIdle /\ WorldsIdle
  /\ ProfileIdle
  /\ adders = [i \in Adders |-> [pc |-> "idle", read |-> EmptyHistory]]
  /\ \E n \in 0..MAX_MESSAGES, earlier \in {0, 5} :
       LET held == [messages |-> [k \in 1..n |-> k],
                    messageCount |-> IF n = MAX_MESSAGES THEN n + earlier ELSE n]
       IN thread = [stored |-> held, before |-> held]

RaceNext ==
  \E i \in Adders :
    \/ ReadHistory(i)
    \/ WriteHistory(i)

RaceSpec == RaceInit /\ [][RaceNext]_vars

\* ------------------------------------------------------------------------
\* The set_notifications setup action
\* ------------------------------------------------------------------------
PrefFrame ==
  UNCHANGED <<leads, leadSeq, transactions, txSeq, accounts, pending, last, scenario,
              storeVars, retryVars, failVars, schedVars, matchVars, histVars, dupVars,
              replyVars, clientVars, worldVars, raceVars>>

\* ConversationalAIService.updateNotificationPreferences: the updates object
\* built by the switch; an object is a function from its own keys
NotificationUpdates(action) ==
  IF action = "enable_both"
    THEN [enableMorningNotification |-> TRUE, enableEveningNotification |-> TRUE,
          morningNotificationTime |-> "08:00", eveningNotificationTime |-> "18:00"]
  ELSE IF action = "disable_both"
    THEN [enableMorningNotification |-> FALSE, enableEveningNotification |-> FALSE]
  ELSE IF action = "enable_morning"
    THEN [enableMorningNotification |-> TRUE, morningNotificationTime |-> "08:00"]
  ELSE IF action = "disable_morning"
    THEN [enableMorningNotification |-> FALSE]
  ELSE IF action = "enable_evening"
    THEN [enableEveningNotification |-> TRUE, eveningNotificationTime |-> "18:00"]
  ELSE IF action = "disable_evening"
    THEN [enableEveningNotification |-> FALSE]
  ELSE << >>

\* obj.key || false
OrFalse(obj, key) == IF key \in DOMAIN obj THEN obj[key] ELSE FALSE

\* a column of prisma.user.update: an undefined value leaves the column as it is
ColumnAfter(obj, key, current) == IF key \in DOMAIN obj THEN obj[key] ELSE current

\* UserService.updateNotificationPreferences: reads morningTime, eveningTime,
\* enableMorning and enableEvening of the object it is given
updateNotificationPreferences(user, preferences) ==
  [user EXCEPT
     !.morningNotificationTime = ColumnAfter(preferences, "morningTime", @),
     !.eveningNotificationTime = ColumnAfter(preferences, "eveningTime", @),
     !.enableMorningNotification = OrFalse(preferences, "enableMorning"),
     !.enableEveningNotification = OrFalse(preferences, "enableEvening")]

NotificationValues ==
  {"enable_morning", "enable_evening", "enable_both",
   "disable_morning", "disable_evening", "disable_both", "weekly"}
StoredTimes == {None, "07:30"}

\* executeSetupAction for a set_notifications action
ExecuteSetupAction(value, confidence) ==
  /\ profile' =
       IF confidence <= getMinConfidence("set_notifications")
         THEN [profile EXCEPT !.value = value, !.confidence = confidence]
         ELSE [updateNotificationPreferences(profile, NotificationUpdates(value))
                 EXCEPT !.value = value, !.confidence = confidence]
  /\ PrefFrame

\* the user's preferences as another part of the system stored them
PrefInit ==
  /\ EmptyStores
  /\ last = NoLast
  /\ scenario = "both"
  /\ StoreIdle /\ RetryIdle /\ RunIdle /\ SchedIdle
  /\ ProbeIdle /\ HistoryIdle /\ DeliveriesIdle /\ AnswerIdle /\ ManagerIdle /\ WorldsIdle
  /\ AddersIdle
  /\ \E m, e \in BOOLEAN, mt, et \in StoredTimes :
       profile = [enableMorningNotification |-> m, enableEveningNotification |-> e,
                  morningNotificationTime |-> mt, eveningNotificationTime |-> et,
                  value |-> None, confidence |-> 0]

PrefNext ==
  \E value \in NotificationValues, confidence \in {80, 90} :
    ExecuteSetupAction(value, confidence)

PrefSpec == PrefInit /\ [][PrefNext]_vars

\* ------------------------------------------------------------------------
\* Properties
\* ------------------------------------------------------------------------
\* message.trim().toLowerCase(), the text the confirmation branches match
CleanText(text) == ToLowerCase(Trim(text))

\* the step taken is a message of user u answered by the service of domain d
Answered(u, d) == last'.user = u /\ last'.svc = d

\* the confirmation grammar of the service of domain d
IsConfirmationMessage(d, text) ==
  IF d = "sales" THEN SalesIsConfirmationMessage(text) ELSE FinanceIsConfirmationMessage(text)

\* C1: with a pending sales confirmation, a reply yes / y / confirm / create new /
\* new lead (trimmed, any case) adds exactly one lead for the user, the proposed
\* one, changes no existing lead, and leaves no pending sales confirmation.
C1_CreateNewPersistsLead ==
  [][\A u \in Users :
       (/\ hasPendingConfirmation(pending, u, "sales")
        /\ last'.user = u
        /\ CleanText(last'.text) \in {"yes", "y", "confirm", "create new", "new lead"})
       => /\ Cardinality({l \in leads' : l.userId = u}) = Cardinality(LeadsOf(u)) + 1
          /\ leads \subseteq leads'
          /\ ~hasPendingConfirmation(pending', u, "sales")]_vars

\* C2: in either domain, a reply update / use existing answered against a pending
\* confirmation whose first candidate is still stored writes the proposed entity
\* into that record, creates no record, and leaves no pending confirmation for
\* the domain.
C2_UpdateExistingMerges ==
  [][\A u \in Users :
       /\ (/\ Answered(u, "sales")
           /\ hasPendingConfirmation(pending, u, "sales")
           /\ CleanText(last'.text) \in {"update", "use existing"}
           /\ Len(pending[u]["sales"].similar) >= 1
           /\ LeadById(u, pending[u]["sales"].similar[1]) # {})
          => LET p == pending[u]["sales"].proposed
                 id == pending[u]["sales"].similar[1]
             IN /\ \A old \in LeadById(u, id) :
                     \E new \in leads' :
                       /\ new.id = id /\ new.userId = u /\ new.name = old.name
                       /\ new.phone = (IF p.phone # None THEN p.phone ELSE old.phone)
                       /\ new.status = (IF p.status # None THEN p.status ELSE old.status)
                       /\ p.notes # None => Includes(ToLowerCase(new.notes), ToLowerCase(p.notes))
                /\ {l \in leads' : l.id # id} = {l \in leads : l.id # id}
                /\ Cardinality(leads') = Cardinality(leads)
                /\ leadSeq' = leadSeq
                /\ ~hasPendingConfirmation(pending', u, "sales")
       /\ (/\ Answered(u, "finance")
           /\ hasPendingConfirmation(pending, u, "finance")
           /\ CleanText(last'.text) \in {"update", "use existing"}
           /\ Len(pending[u]["finance"].similar) >= 1
           /\ TxById(u, pending[u]["finance"].similar[1].id) # {})
          => LET p == pending[u]["finance"].proposed
                 id == pending[u]["finance"].similar[1].id
             IN /\ \E new \in transactions' :
                     /\ new.id = id /\ new.userId = u
                     /\ new.description = p.description /\ new.amount = p.amount
                /\ {t \in transactions' : t.id # id} = {t \in transactions : t.id # id}
                /\ Cardinality(transactions') = Cardinality(transactions)
                /\ txSeq' = txSeq
                /\ ~hasPendingConfirmation(pending', u, "finance")]_vars

\* C2 witness: a sales candidate has just been given the proposed phone
C2_Witness ==
  /\ last.svc = "sales" /\ last.reply = "merged" /\ last.text = "Use Existing"
  /\ \E l \in leads : l.id = last.target /\ l.phone = "0821" /\ l.status = "Contacted"
  /\ pending[last.user]["sales"] = NoPending

\* C3: in either domain, a reply no / n / cancel / abort answered against a
\* pending confirmation changes no lead, transaction or account, leaves no
\* pending confirmation for the domain, and is acknowledged as cancelled.
C3_CancelClearsOnly ==
  [][\A u \in Users, d \in Domains :
       (/\ Answered(u, d)
        /\ hasPendingConfirmation(pending, u, d)
        /\ CleanText(last'.text) \in {"no", "n", "cancel", "abort"})
       => /\ UNCHANGED <<leads, leadSeq, transactions, txSeq, accounts>>
          /\ ~hasPendingConfirmation(pending', u, d)
          /\ last'.reply = "cancelled"]_vars

\* C3 witness: a finance confirmation has just been cancelled with records stored
C3_Witness ==
  /\ last.svc = "finance" /\ last.reply = "cancelled" /\ last.text = "abort"
  /\ last.hadPending
  /\ transactions # {}
  /\ pending[last.user]["finance"] = NoPending

\* the reply the show branch gives for a stored confirmation pc of domain d:
\* the 1-based number of the text (default 1) names a stored candidate, whose
\* lead sales reads again
ShowTargetStored(u, d, pc, text) ==
  LET i == TargetIndexOf(CleanText(text)) + 1 IN
  /\ i \in 1..Len(pc.similar)
  /\ d = "sales" => LeadById(u, pc.similar[i]) # {}

\* the record of the first candidate of a stored confirmation pc is in the store
FirstCandidateStored(u, d, pc) ==
  /\ Len(pc.similar) >= 1
  /\ d = "sales" => LeadById(u, pc.similar[1]) # {}
  /\ d = "finance" => TxById(u, pc.similar[1].id) # {}

\* C4 as claimed: in either domain, a reply show / details / info (optionally
\* followed by a number) answered against a pending confirmation returns the
\* detail view, changes no record and leaves the pending confirmation as stored.
C4_ShowReturnsDetailView ==
  [][\A u \in Users, d \in Domains :
       (/\ Answered(u, d)
        /\ hasPendingConfirmation(pending, u, d)
        /\ MatchesShow(Trim(last'.text)))
       => /\ last'.reply = "details"
          /\ UNCHANGED <<leads, leadSeq, transactions, txSeq, accounts>>
          /\ pending' = pending]_vars

\* C4 as amended: such a reply, when the service's grammar accepts it (in finance
\* it must be shorter than 20 characters), returns the detail view exactly when
\* its number (default 1) names a stored candidate (in sales, one whose lead still exists)
\* and an error message otherwise; either way it changes no record and leaves
\* the pending confirmation as stored, and an update / use existing reply that
\* follows it, the first candidate's record being in the store, still merges
\* into that candidate and only then clears the confirmation.
C4_ShowKeepsPending ==
  [][\A u \in Users, d \in Domains :
       /\ (/\ Answered(u, d)
           /\ hasPendingConfirmation(pending, u, d)
           /\ IsConfirmationMessage(d, last'.text)
           /\ MatchesShow(Trim(last'.text)))
          => /\ last'.act = "show_details"
             /\ last'.reply \in {"details", "no_similar", "no_details"}
             /\ last'.reply = "details" <=> ShowTargetStored(u, d, pending[u][d], last'.text)
             /\ UNCHANGED <<leads, leadSeq, transactions, txSeq, accounts>>
             /\ pending' = pending
       /\ (/\ last.user = u /\ last.svc = d /\ last.act = "show_details"
           /\ Answered(u, d)
           /\ CleanText(last'.text) \in {"update", "use existing"})
          => /\ hasPendingConfirmation(pending, u, d)
             /\ FirstCandidateStored(u, d, pending[u][d])
                  => /\ last'.reply = "merged"
                     /\ ~hasPendingConfirmation(pending', u, d)]_vars

\* C4 witness: the second candidate of a pending finance confirmation has just
\* been shown and the confirmation is still stored
C4_Witness ==
  /\ last.svc = "finance" /\ last.act = "show_details" /\ last.reply = "details"
  /\ last.text = "info 2"
  /\ hasPendingConfirmation(pending, last.user, "finance")
  /\ Len(pending[last.user]["finance"].similar) = 2

\* C5: a reply yes (or y / confirm / add new / new transaction) answered against
\* a pending finance confirmation adds one transaction, the proposed one, leaves
\* every stored transaction (the similar one too) as it was, and leaves no
\* pending finance confirmation.
C5_FinanceYesAddsSeparate ==
  [][\A u \in Users :
       (/\ Answered(u, "finance")
        /\ hasPendingConfirmation(pending, u, "finance")
        /\ CleanText(last'.text) \in {"yes", "y", "confirm", "add new", "new transaction"})
       => LET p == pending[u]["finance"].proposed IN
          /\ \E new \in transactions' :
               /\ new.userId = u
               /\ new.description = p.description /\ new.amount = p.amount
               /\ \A t \in transactions : t.id # new.id
               /\ transactions' = transactions \cup {new}
          /\ Cardinality(transactions') = Cardinality(transactions) + 1
          /\ ~hasPendingConfirmation(pending', u, "finance")]_vars

\* C5 witness: 'yes' has just added the proposed transaction next to the similar one
C5_Witness ==
  /\ last.svc = "finance" /\ last.reply = "added_new" /\ last.text = "yes"
  /\ Cardinality(transactions) = 2
  /\ \A t \in transactions : t.description = "Groceries" /\ t.amount = 89
  /\ pending[last.user]["finance"] = NoPending

\* C6: a domain's confirmation state machine answers a message exactly when the
\* text matches the confirmation grammar and a confirmation is pending for the
\* user and domain; any other message is parsed as an intent, gets no
\* confirmation reply, and leaves a pending confirmation in place.
C6_GateIffGrammarAndPending ==
  [][\A u \in Users, d \in Domains :
       Answered(u, d)
       => /\ last'.path = "confirmation"
               <=> (IsConfirmationMessage(d, last'.text) /\ hasPendingConfirmation(pending, u, d))
          /\ last'.path # "confirmation"
               => /\ last'.path = "intent"
                  /\ hasPendingConfirmation(pending, u, d)
                       => hasPendingConfirmation(pending', u, d)]_vars

\* C7: when the Duplicate Classifier answers a create or an add, a DUPLICATE
\* verdict stores the proposed entity as the pending confirmation of the user and
\* domain, returns the disambiguation prompt and changes no record; a record is
\* created directly only on a UNIQUE verdict.
C7_DuplicateStoresPending ==
  [][\A u \in Users, d \in Domains :
       (Answered(u, d) /\ last'.classifier = "ok")
       => /\ last'.dup.result = "DUPLICATE"
               => /\ hasPendingConfirmation(pending', u, d)
                  /\ pending'[u][d].proposed = last'.proposed
                  /\ last'.reply = "duplicate_confirmation"
                  /\ UNCHANGED <<leads, leadSeq, transactions, txSeq, accounts>>
          /\ last'.reply = "created" => last'.dup.result = "UNIQUE"]_vars

\* C8: a sales create whose name or phone the Entity Matcher finds among the
\* user's leads updates that lead in place: no lead is added, no pending
\* confirmation is stored or changed, and the Duplicate Classifier is not asked.
C8_MatcherHitSkipsClassifier ==
  [][\A u \in Users :
       (/\ Answered(u, "sales")
        /\ last'.path = "intent" /\ last'.act = "create"
        /\ findExistingLead(u, last'.proposed.name, last'.proposed.phone) # {})
       => /\ last'.classifier = "na" /\ last'.dup = NoVerdict
          /\ last'.reply = "updated_existing"
          /\ pending' = pending
          /\ leadSeq' = leadSeq
          /\ \E l \in findExistingLead(u, last'.proposed.name, last'.proposed.phone) :
               /\ l.id = last'.target
               /\ {m \in leads' : m.id # l.id} = {m \in leads : m.id # l.id}
               /\ \E m \in leads' :
                    /\ m.id = l.id /\ m.name = l.name
                    /\ last'.proposed.phone # None => m.phone = last'.proposed.phone]_vars

\* C8 witness: a create of "ACME!" has just been merged into the lead "acme corp",
\* which the substring strategy found
C8_Witness ==
  /\ last.svc = "sales" /\ last.act = "create" /\ last.reply = "updated_existing"
  /\ last.proposed.name = "ACME!"
  /\ \E l \in leads : l.id = last.target /\ l.name = "acme corp"
  /\ Cardinality(leads) = 1

\* C9: in either domain, when the Duplicate Classifier call fails (it throws, or
\* its answer fails parsing or the schema), the check result is UNIQUE with
\* confidence 0.5, no pending confirmation is stored, and the proposed record is
\* created.
C9_ClassifierFallbackCreates ==
  [][\A u \in Users, d \in Domains :
       (Answered(u, d) /\ last'.classifier = "failed")
       => /\ last'.dup.result = "UNIQUE" /\ last'.dup.confidence = 50
          /\ pending' = pending
          /\ last'.reply = "created"
          /\ d = "sales"
               => /\ UNCHANGED <<transactions, txSeq, accounts>>
                  /\ \E new \in leads' :
                       /\ new \notin leads /\ leads' = leads \cup {new}
                       /\ new.userId = u /\ new.id = last'.target
                       /\ new.name = cleanLeadName(last'.proposed.name)
                       /\ new.phone = last'.proposed.phone
                       /\ new.notes = last'.proposed.notes
          /\ d = "finance"
               => /\ UNCHANGED <<leads, leadSeq, accounts>>
                  /\ \E new \in transactions' :
                       /\ new \notin transactions /\ transactions' = transactions \cup {new}
                       /\ new.userId = u /\ new.id = last'.target
                       /\ new.description = last'.proposed.description
                       /\ new.amount = last'.proposed.amount]_vars

\* C9 witness: the classifier call failed for an add next to a stored
\* transaction, and the proposed transaction has just been created
C9_Witness ==
  /\ last.svc = "finance" /\ last.classifier = "failed" /\ last.reply = "created"
  /\ last.dup.result = "UNIQUE" /\ last.dup.confidence = 50
  /\ Cardinality(transactions) = 2
  /\ pending[last.user]["finance"] = NoPending

\* the note text a sales step applies to the lead it merges into
AppliedNotes(u) ==
  IF last'.act = "update_existing" THEN pending[u]["sales"].proposed.notes
  ELSE last'.proposed.notes

\* C10: a note text applied to a lead whose notes already hold it, by a create
\* that the Entity Matcher resolves, by an update, or by a confirmed
\* update_existing, leaves the lead's notes unchanged.
C10_NoteMergeIdempotent ==
  [][\A u \in Users :
       (/\ Answered(u, "sales")
        /\ last'.reply \in {"updated_existing", "updated", "merged"})
       => \A l \in LeadById(u, last'.target) :
            (/\ Truthy(AppliedNotes(u))
             /\ Truthy(l.notes)
             /\ Includes(ToLowerCase(l.notes), ToLowerCase(AppliedNotes(u))))
            => \E m \in leads' : m.id = l.id /\ m.notes = l.notes]_vars

\* C11: a key holds at most one confirmation: a store replaces what the key
\* held, and a get returns the value stored last for the key or nothing, never
\* an earlier one.
C11_GetReturnsLatestStore ==
  /\ \A u \in Users, d \in Domains :
       pending[u][d] \in {NoPending, CorruptData, written[u][d].value}
  /\ last.op = "store" => pending[last.user][last.domain] = written[last.user][last.domain].value
  /\ last.op = "get" => last.result \in {NoPending, written[last.user][last.domain].value}

\* C11 witness: a second, different confirmation was stored over an unresolved
\* first one, and a get has just returned the second
C11_Witness ==
  /\ last.op = "get"
  /\ last.result = written[last.user][last.domain].value
  /\ last.result # NoPending
  /\ written[last.user][last.domain].previous \notin {NoPending, CorruptData, last.result}

\* C12: a get or an exists made more than 300 seconds after the last store of
\* a key finds nothing, whether or not the key was cleared and whatever was
\* read in between.
C12_UnreadableAfterTTL ==
  (/\ last.op \in {"get", "exists"}
   /\ last.at > written[last.user][last.domain].at + 300)
  => last.result = (IF last.op = "get" THEN NoPending ELSE FALSE)

\* C12 witness: a confirmation that was stored and never cleared has just been
\* found absent after its 300 seconds, at a time when an hour has not passed
C12_Witness ==
  /\ last.op = "get" /\ last.result = NoPending
  /\ written[last.user][last.domain].value # NoPending
  /\ ~written[last.user][last.domain].cleared
  /\ last.at > written[last.user][last.domain].at + 300
  /\ last.at < written[last.user][last.domain].at + 3600

\* C13: while a confirmation is pending, a message whose trimmed text is 30
\* characters long is not treated as a confirmation reply by the router or by the
\* service of either domain, even when it matches a confirmation pattern; a
\* message matching yes | y (any case) is treated as a confirmation reply.
C13_LengthGate ==
  [][\A u \in Users :
       last'.user = u
       => /\ \A d \in Domains :
               (/\ hasPendingConfirmation(pending, u, d)
                /\ Len(Trim(last'.text)) = 30
                /\ last'.svc = d)
               => /\ last'.route = "general"
                  /\ last'.path # "confirmation"
          /\ (/\ \E d \in Domains : hasPendingConfirmation(pending, u, d)
              /\ CleanText(last'.text) \in {"yes", "y"})
             => last'.path = "confirmation"]_vars

\* the reply names a candidate of domain d: 'update N' in either domain, a bare
\* number in sales, or 'update' / 'use existing'
NamesCandidate(d, text) ==
  \/ MatchesUpdateN(Trim(text))
  \/ d = "sales" /\ Len(Trim(text)) > 0 /\ AllDigits(Trim(text))
  \/ CleanText(text) \in {"update", "use existing"}

\* the 1-based index the reply names, 1 when it gives no number
NamedIndex(text) ==
  IF FirstDigitRun(CleanText(text)) = None THEN 1 ELSE ParseInt(FirstDigitRun(CleanText(text)))

\* the id of the N-th candidate of a pending confirmation of domain d
CandidateId(d, pc, N) == IF d = "sales" THEN pc.similar[N] ELSE pc.similar[N].id

\* the N-th candidate is still in the durable store
CandidateStored(u, d, pc, N) ==
  IF d = "sales" THEN LeadById(u, pc.similar[N]) # {} ELSE TxById(u, pc.similar[N].id) # {}

\* C14: with a pending confirmation holding k candidates, a reply 'update N' in
\* either domain, or a bare number N in sales, with 1 <= N <= k, is taken as
\* update_existing and merges the proposed entity into the N-th candidate;
\* 'update' or 'use existing' without a number targets the first candidate.
C14_IndexResolution ==
  [][\A u \in Users, d \in Domains :
       (/\ Answered(u, d)
        /\ hasPendingConfirmation(pending, u, d)
        /\ pending[u][d] # CorruptData
        /\ NamesCandidate(d, last'.text)
        /\ NamedIndex(last'.text) \in 1..Len(pending[u][d].similar)
        /\ CandidateStored(u, d, pending[u][d], NamedIndex(last'.text)))
       => /\ last'.act = "update_existing"
          /\ last'.reply = "merged"
          /\ last'.target = CandidateId(d, pending[u][d], NamedIndex(last'.text))]_vars

\* C15: when a reply is taken as update_existing against a pending confirmation
\* whose candidate list is empty, or whose requested index is outside 1..k
\* (0 included), the user gets an error message, no record is changed, and the
\* pending confirmation of the user and domain is cleared.
C15_OutOfRangeClears ==
  [][\A u \in Users, d \in Domains :
       (/\ Answered(u, d)
        /\ hasPendingConfirmation(pending, u, d)
        /\ pending[u][d] # CorruptData
        /\ last'.act = "update_existing"
        /\ NamedIndex(last'.text) \notin 1..Len(pending[u][d].similar))
       => /\ last'.reply \in {"no_similar", "target_not_found"}
          /\ UNCHANGED <<leads, leadSeq, transactions, txSeq, accounts>>
          /\ ~hasPendingConfirmation(pending', u, d)]_vars

\* C16: a sales create for a name the Entity Matcher does not match, with a
\* UNIQUE duplicate check (or no lead stored yet), creates exactly one lead whose
\* stored name is the name given in the intent and whose status is 'New' when the
\* intent gave none, stores no pending confirmation, and answers with the
\* created lead.
C16_PlainCreateKeepsName ==
  [][\A u \in Users :
       (/\ Answered(u, "sales")
        /\ last'.act = "create"
        /\ last'.matcher = "miss"
        /\ last'.dup.result = "UNIQUE")
       => /\ \E l \in leads' \ leads :
               /\ leads' = leads \cup {l}
               /\ l.userId = u
               /\ l.name = last'.proposed.name
               /\ l.status = (IF last'.proposed.status = None THEN "New"
                                                              ELSE last'.proposed.status)
               /\ last'.target = l.id
          /\ last'.reply = "created"
          /\ pending' = pending]_vars

\* C17: processAIRequest calls the AI provider at most 2 times per request; a
\* second attempt is made only when the first failed with a transient error
\* (429 / 502 / 503, overloaded, timeout, network or connection), after a backoff;
\* every other failure, unparsable JSON and schema failure included, is rethrown
\* after the first attempt; a successful attempt returns the validated value and
\* ends the loop.
C17_BoundedRetry ==
  /\ request.calls <= 2
  /\ request.attempt = 2 => request.first.transient /\ request.slept > 0
  /\ (request.first # NoError /\ ~request.first.transient)
       => request.phase = "thrown" /\ request.calls = 1 /\ request.error = request.first
  /\ request.phase = "returned" => request.value \in ValidatedValues

\* C18: whatever fails among the AI provider, the durable store and Redis,
\* SalesService.processMessage, FinanceService.processMessage and
\* ConversationalAIService.processMessage let no exception escape: each call
\* ends by returning a string.
C18_AlwaysReply == run.outcome # "escaped"

\* C19: when an update names a lead that does not exist for the user, the user
\* receives a failure message reporting the missing lead, the intent is not
\* dispatched a second time, and no record is created as a side effect.
C19_NotFoundFailsDirectly ==
  [][\A u \in Users :
       (/\ Answered(u, "sales")
        /\ last'.path = "intent"
        /\ last'.act = "update"
        /\ last'.proposed # NoProposal
        /\ findExistingLead(u, last'.proposed.name, last'.proposed.phone) = {})
       => /\ last'.reply \notin {"created", "duplicate_confirmation", "updated", "updated_existing"}
          /\ UNCHANGED <<leads, leadSeq, pending>>]_vars

\* the Notification rows of a send that have one of the given statuses
RowsOf(send, statuses) ==
  {i \in 1..Len(notifications) :
     /\ notifications[i].userId = send.userId
     /\ notifications[i].type = send.type
     /\ notifications[i].status \in statuses}

\* C20: in one scheduler run over the due users, a failure while generating or
\* delivering one user's notification is caught and recorded as a Notification
\* row with status 'failed', every later due user of the run is still attempted,
\* and a delivery that succeeded is recorded exactly once, with status 'sent'.
C20_FailureIsolation ==
  batch.pc = "finished"
  => /\ batch.attempted = batch.due
     /\ \A send \in batch.failed : RowsOf(send, {"failed"}) # {}
     /\ \A send \in batch.delivered :
          /\ Cardinality(RowsOf(send, {"sent"})) = 1
          /\ RowsOf(send, {"failed"}) = {}

\* the rows of the user that a strategy hits for the string asked for
ExactHits(u, asked) == {l \in LeadsOf(u) : ToLowerCase(l.name) = ToLowerCase(asked)}
PhoneHits(u, phone) == IF phone = None THEN {} ELSE {l \in LeadsOf(u) : l.phone = phone}
SubstringHits(u, asked) == {l \in LeadsOf(u) : Includes(ToLowerCase(l.name), ToLowerCase(asked))}

\* the result is one of the hits of the first strategy that hits for the string
\* asked for, and null when none hits
FirstHit(result, u, asked, phone) ==
  IF ExactHits(u, asked) # {} THEN result \in ExactHits(u, asked)
  ELSE IF PhoneHits(u, phone) # {} THEN result \in PhoneHits(u, phone)
  ELSE IF SubstringHits(u, asked) # {} THEN result \in SubstringHits(u, asked)
  ELSE result = NoLead

C23_HistoryCapAndOrder ==
  /\ history.stored # NoHistory
       => LET n == Len(history.added)
              k == IF n < 20 THEN n ELSE 20
          IN /\ Len(history.stored.messages) = k
             /\ \A i \in 1..k : history.stored.messages[i] = history.added[n - k + i]
  /\ history.op = "add" => history.stored # NoHistory /\ history.expiresAt = clock + 7200
  /\ history.op = "read_hit"
       => /\ history.result = history.stored
          /\ history.expiresAt = clock + 7200

\* C23 witness: more than 20 messages were added within the TTL, and a read at
\* a later time has just extended the expiry of the key
C23_Witness ==
  /\ history.op = "read_hit"
  /\ Len(history.added) > 20
  /\ Len(history.stored.messages) = 20
  /\ clock > 0

\* C24: when the same 'yes' reply to one pending finance confirmation is
\* processed twice concurrently, exactly one transaction is created from the
\* proposed entity and the other processing finds no pending confirmation.
C24_SingleResolution ==
  (\A i \in Deliveries : deliveries[i].pc = "done")
    => /\ Len(ledger.created) = 1
       /\ \E i, j \in Deliveries :
            /\ i # j
            /\ deliveries[i].reply = "added"
            /\ deliveries[j].reply = "normal"

\* C25: on the general path, when context-aware processing completes without
\* error, processMessage returns exactly the response that processing
\* produced; a friendly error message is returned only when processing failed.
C25_GeneralReplyFidelity ==
  (exchange.pc = "returned" /\ ~exchange.failed) => exchange.returned = exchange.produced

\* C26: when a user has a pending confirmation in both sales and finance and
\* sends a confirmation reply, the reply is applied to the confirmation that
\* was stored most recently, and the other domain's pending confirmation is
\* left unchanged.
C26_LatestPromptAnswered ==
  [][\A u \in Users, d \in Domains, other \in Domains :
       (/\ other # d
        /\ last.user = u /\ last.svc = d /\ last.reply = "duplicate_confirmation"
        /\ hasPendingConfirmation(pending, u, d)
        /\ hasPendingConfirmation(pending, u, other)
        /\ (Answered(u, d) \/ Answered(u, other))
        /\ looksLikeConfirmation(last'.text))
       => /\ last'.svc = d
          /\ pending'[u][other] = pending[u][other]]_vars

\* C27: under any interleaving of concurrent getClient calls, at most one
\* connection attempt is in flight at a time, and every call that returns
\* without throwing returns a client that is open, calls that waited on
\* another caller's connection attempt included.
C27_OneAttemptOpenClient ==
  /\ Cardinality({i \in Callers : callers[i].pc = "connecting"}) <= 1
  /\ \A i \in Callers : callers[i].pc = "returned" => callers[i].result = "open"

\* C28: for two system states that differ only in another user B's records
\* (B's username included), user A's confirmation reply is routed identically
\* and has the same effect on A's pending confirmation and A's records.
C28_ReplyIndependentOfOthers ==
  [][(/\ \A w \in Worlds : worlds[w].confirmation[UserA] # NoPending
      /\ \A w \in Worlds : worlds'[w].username = worlds[w].username
      /\ \A w \in Worlds : worlds'[w].text # None /\ looksLikeConfirmation(worlds'[w].text))
     => \A v, w \in Worlds :
          /\ worlds'[v].outcome = worlds'[w].outcome
          /\ worlds'[v].confirmation[UserA] = worlds'[w].confirmation[UserA]
          /\ worlds'[v].username[UserA] = worlds'[w].username[UserA]]_vars

\* C29: when two addMessage calls for the same user run concurrently, both
\* messages are present in the stored conversation history afterwards (subject
\* only to the 20-message cap) and messageCount has grown by two.
C29_NoLostMessage ==
  (\A i \in Adders : adders[i].pc = "done")
    => /\ \A i \in Adders :
            \E k \in 1..Len(thread.stored.messages) : thread.stored.messages[k] = NewMessage(i)
       /\ thread.stored.messageCount = thread.before.messageCount + 2

\* C30: after a set_notifications setup action with confidence above 0.8 is
\* executed, an enable value leaves the named flag(s) true with the default
\* time(s) '08:00' / '18:00' stored, a disable value leaves the named flag(s)
\* false, and the flag and time of the kind that was not named are unchanged.
C30_NotificationSetup ==
  [][LET value == profile'.value
         morning == value \in {"enable_morning", "disable_morning", "enable_both", "disable_both"}
         evening == value \in {"enable_evening", "disable_evening", "enable_both", "disable_both"}
         enable == value \in {"enable_morning", "enable_evening", "enable_both"}
     IN (profile'.confidence > 80 /\ (morning \/ evening))
        => /\ morning => /\ profile'.enableMorningNotification = enable
                          /\ enable => profile'.morningNotificationTime = "08:00"
           /\ evening => /\ profile'.enableEveningNotification = enable
                          /\ enable => profile'.eveningNotificationTime = "18:00"
           /\ ~morning => /\ profile'.enableMorningNotification = profile.enableMorningNotification
                           /\ profile'.morningNotificationTime = profile.morningNotificationTime
           /\ ~evening => /\ profile'.enableEveningNotification = profile.enableEveningNotification
                           /\ profile'.eveningNotificationTime = profile.eveningNotificationTime]_vars

====
